---- MODULE Spec2Model ----
(***************************************************************************)
(* Verification model of the SVG-to-package export engine                  *)
(* (crate pptm-pptx: load_slides, read_notes, validate_svg, svg_to_png and *)
(* the NativeOoxml backend).                                               *)
(*                                                                         *)
(* Text is modelled as a tuple of one-character strings, so that substring *)
(* search, formatting and escaping are computed character by character.    *)
(* File names are tuples of ASCII codes, so that they can be ordered.      *)
(* Part names and relationship targets are tuples of path segments.        *)
(* A u32 is a pair of 16-bit limbs <<hi, lo>>.                             *)
(***************************************************************************)
EXTENDS Integers, Sequences, FiniteSets, TLC

VARIABLES
    slides,      \* the slide sequence handed to export / returned by load_slides
    config,      \* PptxConfig: width and height (u32)
    build,       \* "debug" (overflow checks on) or "release" (wrapping)
    pc,          \* position of the running operation
    idx,         \* loop index of the running operation (0-based, as enumerate())
    zip,         \* entries written to the output archive so far, in order
    outfile,     \* TRUE once File::create(output_path) has created the file
    result,      \* "none", "Ok", "Err" or "Panic"
    svg_output,  \* <project>/svg_output: [exists, files], a file is [name, text]
    svg_final,   \* <project>/svg_final
    notes_dir,   \* <project>/notes
    entries,     \* load_slides: the sorted directory entries (file names)
    applied,     \* per loaded slide: the rewrite passes load_slides ran on its SVG
    doc,         \* validate_svg: the document under validation, as fragments
    verdict,     \* validate_svg: its return value
    error,       \* the PptxError carried by an Err result
    request,     \* cmd_export_pptx: the ExportPptxRequest and its environment
    response,    \* cmd_export_pptx: the ExportPptxResponse returned
    calls,       \* cmd_export_pptx: the calls it has made, in order
    child,       \* PptxGenSidecar: the node process and its three pipes
    captured,    \* PptxGenSidecar: what export_async has read and decided
    pass_in,     \* a rewrite pass: its input
    pass_out,    \* a rewrite pass: its return value
    project_exists, \* cmd_run_pipeline: whether the project path exists
    job_registry,   \* AppState: job id -> JobRecord (status, message, token)
    emitted,        \* the job events emitted on the window, in order
    tasks,          \* per job: the position of the spawned pipeline task
    cancels         \* per job: the position of a cmd_cancel_job call

vars == <<slides, config, build, pc, idx, zip, outfile, result,
          svg_output, svg_final, notes_dir, entries, applied, doc, verdict,
          error, request, response, calls, child, captured, pass_in, pass_out,
          project_exists, job_registry, emitted, tasks, cancels>>

fsVars == <<svg_output, svg_final, notes_dir>>
loadVars == <<entries, applied>>
validateVars == <<doc, verdict>>
cmdVars == <<request, response, calls>>
sidecarVars == <<child, captured>>
passVars == <<pass_in, pass_out>>
jobVars == <<project_exists, job_registry, emitted, tasks, cancels>>
extVars == <<cmdVars, sidecarVars, passVars, jobVars>>

(***************************************************************************)
(* Bounds                                                                  *)
(***************************************************************************)
\* slides handed to one export
MaxSlides == 2
\* files in svg_final before finalize_project runs
MaxFiles == 2
\* files in the notes directory
MaxNotes == 2
\* markup fragments in a document given to validate_svg
MaxFrags == 2

(***************************************************************************)
(* u32 arithmetic on 16-bit limbs                                          *)
(***************************************************************************)
Limb == 65536

EmuPerPixel == 9525

U32(hi, lo) == <<hi, lo>>

\* the exact product v * k, as three limbs <<l2, l1, l0>> (k < 2^15)
MulWide(v, k) ==
    LET p0 == v[2] * k
        p1 == v[1] * k + (p0 \div Limb)
    IN  <<p1 \div Limb, p1 % Limb, p0 % Limb>>

MulOverflows(v, k) == MulWide(v, k)[1] # 0

\* u32 multiplication as a release build computes it: the low 32 bits
WrappingMul(v, k) == <<MulWide(v, k)[2], MulWide(v, k)[3]>>

(***************************************************************************)
(* Text helpers                                                            *)
(***************************************************************************)
RECURSIVE Concat(_)
Concat(ss) == IF ss = <<>> THEN <<>> ELSE Head(ss) \o Concat(Tail(ss))

\* str::contains
Contains(text, pat) ==
    \E i \in 0..(Len(text) - Len(pat)) : SubSeq(text, i + 1, i + Len(pat)) = pat

SeqToSet(s) == {s[i] : i \in DOMAIN s}

(***************************************************************************)
(* NativeOoxml: part names                                                 *)
(***************************************************************************)
ContentTypesPart == <<"[Content_Types].xml">>
RootRelsPart == <<"_rels", ".rels">>
PresentationPart == <<"ppt", "presentation.xml">>
PresentationRelsPart == <<"ppt", "_rels", "presentation.xml.rels">>
SlidePart(n) == <<"ppt", "slides", "slide" \o ToString(n) \o ".xml">>
SlideRelsPart(n) == <<"ppt", "slides", "_rels", "slide" \o ToString(n) \o ".xml.rels">>
NotesSlidePart(n) == <<"ppt", "notesSlides", "notesSlide" \o ToString(n) \o ".xml">>
MediaPart(n) == <<"ppt", "media", "image" \o ToString(n) \o ".png">>
SlideLayoutPart == <<"ppt", "slideLayouts", "slideLayout1.xml">>
SlideMasterPart == <<"ppt", "slideMasters", "slideMaster1.xml">>

RId(n) == "rId" \o ToString(n)

Rel(id, type, target) == [id |-> id, type |-> type, target |-> target]

(***************************************************************************)
(* NativeOoxml: the generated parts.  A part's body is a record of what    *)
(* the XML template declares: ids, targets, names and sizes.               *)
(***************************************************************************)
\* an Override's PartName is absolute: "/" followed by the part's path
Override(part) == <<"">> \o part

\* mutant: the override loop stops one slide short
generate_content_types_ShortLoop(slide_count) ==
    [kind |-> "types",
     defaults |-> <<"rels", "xml", "png">>,
     overrides |->
        <<Override(PresentationPart)>>
        \o Concat([i \in 1..(slide_count - 1) |->
                     <<Override(SlidePart(i)), Override(NotesSlidePart(i))>>])
        \o <<Override(SlideLayoutPart), Override(SlideMasterPart)>>]

generate_content_types(slide_count) ==
    [kind |-> "types",
     defaults |-> <<"rels", "xml", "png">>,
     overrides |->
        <<Override(PresentationPart)>>
        \o Concat([i \in 1..slide_count |->
                     <<Override(SlidePart(i)), Override(NotesSlidePart(i))>>])
        \o <<Override(SlideLayoutPart), Override(SlideMasterPart)>>]

generate_root_rels ==
    [kind |-> "rels",
     rels |-> <<Rel("rId1", "officeDocument", <<"ppt", "presentation.xml">>)>>]

\* config.width * 9525 in u32: only evaluated where it does not panic
Emu(px) == WrappingMul(px, EmuPerPixel)

generate_presentation(slide_count, cfg) ==
    [kind |-> "presentation",
     sldMasterIdLst |-> <<[id |-> "2147483648", rid |-> "rId1"]>>,
     sldIdLst |-> [i \in 1..slide_count |->
                      [id |-> ToString(255 + i), rid |-> RId(i + 1)]],
     sldSz |-> [cx |-> Emu(cfg.width), cy |-> Emu(cfg.height)]]

generate_presentation_rels(slide_count) ==
    [kind |-> "rels",
     rels |-> <<Rel("rId1", "slideMaster", <<"slideMasters", "slideMaster1.xml">>)>>
              \o [i \in 1..slide_count |->
                    Rel(RId(i + 1), "slide",
                        <<"slides", "slide" \o ToString(i) \o ".xml">>)]]

svg_to_pml(svg, cfg) ==
    [tag |-> "sp", name |-> "SVG Content", embed |-> <<>>,
     ext |-> [cx |-> U32(9144000 \div Limb, 9144000 % Limb),
              cy |-> U32(5486400 \div Limb, 5486400 % Limb)]]

\* mutant: the picture embeds the relationship numbered like the slide
png_to_pml_EmbedBySlideNumber(slide_num, cfg) ==
    [tag |-> "pic", name |-> "Image " \o ToString(slide_num),
     embed |-> <<RId(slide_num)>>,
     ext |-> [cx |-> Emu(cfg.width), cy |-> Emu(cfg.height)]]

png_to_pml(slide_num, cfg) ==
    [tag |-> "pic", name |-> "Image " \o ToString(slide_num), embed |-> <<"rId1">>,
     ext |-> [cx |-> Emu(cfg.width), cy |-> Emu(cfg.height)]]

generate_slide(slide, cfg) ==
    [kind |-> "slide",
     ext |-> [cx |-> Emu(cfg.width), cy |-> Emu(cfg.height)],
     chExt |-> [cx |-> Emu(cfg.width), cy |-> Emu(cfg.height)],
     content |-> IF slide.content.type = "Svg"
                 THEN svg_to_pml(slide.content.svg, cfg)
                 ELSE png_to_pml(slide.number, cfg)]

generate_slide_rels(slide_num) ==
    [kind |-> "rels",
     rels |-> <<Rel("rId1", "image",
                    <<"..", "media", "image" \o ToString(slide_num) \o ".png">>),
                Rel("rId2", "slideLayout",
                    <<"..", "slideLayouts", "slideLayout1.xml">>),
                Rel("rId3", "notesSlide",
                    <<"..", "notesSlides",
                      "notesSlide" \o ToString(slide_num) \o ".xml">>)>>]

\* str::replace of one character by a string
RECURSIVE Replace(_, _, _)
Replace(text, ch, rep) ==
    IF text = <<>> THEN <<>>
    ELSE (IF Head(text) = ch THEN rep ELSE <<Head(text)>>)
         \o Replace(Tail(text), ch, rep)

escape_xml(text) ==
    LET a == Replace(text, "&", <<"&", "a", "m", "p", ";">>)
        b == Replace(a, "<", <<"&", "l", "t", ";">>)
        c == Replace(b, ">", <<"&", "g", "t", ";">>)
        d == Replace(c, "\"", <<"&", "q", "u", "o", "t", ";">>)
    IN  Replace(d, "'", <<"&", "a", "p", "o", "s", ";">>)

generate_notes_slide(slide) ==
    [kind |-> "notes",
     text |-> escape_xml(IF slide.notes.some THEN slide.notes.text ELSE <<>>)]

generate_slide_layout == [kind |-> "sldLayout", type |-> "blank"]

generate_slide_master ==
    [kind |-> "sldMaster",
     sldLayoutIdLst |-> <<[id |-> "2147483649", rid |-> "rId1"]>>]

Entry(name, body) == [name |-> name, body |-> body]

(***************************************************************************)
(* Slide records                                                           *)
(***************************************************************************)
SvgContent(svg) == [type |-> "Svg", svg |-> svg, png |-> <<>>]
PngContent(png) == [type |-> "Png", svg |-> <<>>, png |-> png]

Slide(number, title, content, notes) ==
    [number |-> number, title |-> title, content |-> content, notes |-> notes]

\* "<svg/>"
CleanSvg == <<"<", "s", "v", "g", "/", ">">>

(***************************************************************************)
(* validate_svg                                                            *)
(***************************************************************************)
\* "clipPath", "mask", "<style", "class=", "foreignObject", "textPath",
\* "@font-face", "animate", "marker-end"
blacklist ==
    <<<<"c", "l", "i", "p", "P", "a", "t", "h">>,
      <<"m", "a", "s", "k">>,
      <<"<", "s", "t", "y", "l", "e">>,
      <<"c", "l", "a", "s", "s", "=">>,
      <<"f", "o", "r", "e", "i", "g", "n", "O", "b", "j", "e", "c", "t">>,
      <<"t", "e", "x", "t", "P", "a", "t", "h">>,
      <<"@", "f", "o", "n", "t", "-", "f", "a", "c", "e">>,
      <<"a", "n", "i", "m", "a", "t", "e">>,
      <<"m", "a", "r", "k", "e", "r", "-", "e", "n", "d">>>>

NoVerdict == [ok |-> TRUE, feature |-> <<>>]

\* Ok(()) or Err(SvgParse("... {feature}")) for the first blacklisted
\* feature, in list order, that the text contains
validate_svg(svg_content) ==
    LET hits == {k \in DOMAIN blacklist : Contains(svg_content, blacklist[k])}
    IN  IF hits = {} THEN [ok |-> TRUE, feature |-> <<>>]
        ELSE [ok |-> FALSE,
              feature |-> blacklist[CHOOSE k \in hits : \A j \in hits : k <= j]]

(***************************************************************************)
(* File names (ASCII codes) and directories                                *)
(***************************************************************************)
Dot == 46

NoDir == [exists |-> FALSE, files |-> {}]
DirOf(files) == [exists |-> TRUE, files |-> files]
File(name, text) == [name |-> name, text |-> text]

FileNames(dir) == {f.name : f \in dir.files}
FileText(dir, name) == (CHOOSE f \in dir.files : f.name = name).text

\* position of the last '.' of a file name, 0 if there is none
LastDot(name) ==
    IF \E i \in DOMAIN name : name[i] = Dot
    THEN CHOOSE i \in DOMAIN name :
            name[i] = Dot /\ \A j \in DOMAIN name : name[j] = Dot => j <= i
    ELSE 0

\* Path::extension: None without a '.', and None when nothing precedes the
\* last '.'
HasExtension(name) == LastDot(name) > 1
extension(name) == SubSeq(name, LastDot(name) + 1, Len(name))

\* Path::file_stem: the name up to the last '.', the whole name when there is
\* no extension
file_stem(name) ==
    IF HasExtension(name) THEN SubSeq(name, 1, LastDot(name) - 1) ELSE name

to_ascii_lowercase(c) == IF c >= 65 /\ c <= 90 THEN c + 32 ELSE c

eq_ignore_ascii_case(a, b) ==
    /\ Len(a) = Len(b)
    /\ \A i \in DOMAIN a : to_ascii_lowercase(a[i]) = to_ascii_lowercase(b[i])

\* the filter of load_slides and of finalize_project: extension "svg"
IsSvgEntry(name) ==
    HasExtension(name) /\ eq_ignore_ascii_case(extension(name), <<115, 118, 103>>)

\* Ord for OsString: byte-wise lexicographic
RECURSIVE LexLeq(_, _)
LexLeq(a, b) ==
    IF a = <<>> THEN TRUE
    ELSE IF b = <<>> THEN FALSE
    ELSE IF Head(a) # Head(b) THEN Head(a) < Head(b)
    ELSE LexLeq(Tail(a), Tail(b))

RECURSIVE Insert(_, _)
Insert(sorted, x) ==
    IF sorted = <<>> THEN <<x>>
    ELSE IF LexLeq(Head(sorted), x) THEN <<Head(sorted)>> \o Insert(Tail(sorted), x)
    ELSE <<x>> \o sorted

\* mutant: the entries stay in directory order
sort_by_file_name_Unsorted(names) == names

\* entries.sort_by_key(|e| e.file_name()): a stable sort
RECURSIVE sort_by_file_name(_)
sort_by_file_name(names) ==
    IF names = <<>> THEN <<>>
    ELSE Insert(sort_by_file_name(SubSeq(names, 1, Len(names) - 1)), names[Len(names)])

\* the orders in which read_dir may yield a set of names
Orders(S) ==
    {s \in [1..Cardinality(S) -> S] : \A i, j \in DOMAIN s : s[i] = s[j] => i = j}

(***************************************************************************)
(* read_notes                                                              *)
(***************************************************************************)
NoNotes == [some |-> FALSE, text |-> <<>>]
SomeNotes(text) == [some |-> TRUE, text |-> text]

\* format!("{}", n)
RECURSIVE Digits(_)
Digits(n) == IF n < 10 THEN <<48 + n>> ELSE Digits(n \div 10) \o <<48 + (n % 10)>>

\* format!("{:02}", n)
Digits02(n) == IF n < 10 THEN <<48>> \o Digits(n) ELSE Digits(n)

\* ".md"
MdSuffix == <<46, 109, 100>>

\* mutant: the unpadded patterns are tried first
patterns_UnpaddedFirst(slide_number, slide_title) ==
    <<Digits(slide_number) \o <<95>> \o slide_title \o MdSuffix,
      Digits02(slide_number) \o <<95>> \o slide_title \o MdSuffix,
      Digits(slide_number) \o MdSuffix,
      Digits02(slide_number) \o MdSuffix>>

patterns(slide_number, slide_title) ==
    <<Digits02(slide_number) \o <<95>> \o slide_title \o MdSuffix,
      Digits(slide_number) \o <<95>> \o slide_title \o MdSuffix,
      Digits02(slide_number) \o MdSuffix,
      Digits(slide_number) \o MdSuffix>>

read_notes(dir, slide_number, slide_title) ==
    LET pats == patterns(slide_number, slide_title)
        found == {k \in DOMAIN pats : pats[k] \in FileNames(dir)}
    IN  IF found = {} THEN NoNotes
        ELSE SomeNotes(FileText(dir, pats[CHOOSE k \in found : \A j \in found : k <= j]))


(***************************************************************************)
(* PptxError                                                               *)
(***************************************************************************)
NoError == [variant |-> "none", label |-> "", detail |-> <<>>]

\* PptxError::Io(std::io::Error), by its ErrorKind
Io(kind) == [variant |-> "Io", label |-> kind, detail |-> <<>>]

\* PptxError::Zip(zip::result::ZipError)
Zip == [variant |-> "Zip", label |-> "", detail |-> <<>>]

\* PptxError::SvgParse(String) and PptxError::PngConversion(String)
SvgParse == [variant |-> "SvgParse", label |-> "", detail |-> <<>>]
PngConversion == [variant |-> "PngConversion", label |-> "", detail |-> <<>>]

\* PptxError::Backend(String): the fixed part of the format string, named by
\* the call that failed, and the texts inserted into it
Backend(label, args) == [variant |-> "Backend", label |-> label, detail |-> args]

(***************************************************************************)
(* Values of the variables an operation does not use                       *)
(***************************************************************************)
NoRequest == [project_exists |-> FALSE, backend |-> ""]
NoResponse ==
    [success |-> FALSE, output_path |-> FALSE,
     error |-> [label |-> "none", cause |-> NoError], slide_count |-> -1]
NoChild == [state |-> "none"]
NoCapture == [stdout |-> <<>>, stderr |-> <<>>, to_write |-> 0]
NoPass == [kind |-> "none"]

\* no job has been created and no command is running
JobsIdle ==
    /\ project_exists = FALSE
    /\ job_registry = <<>>
    /\ emitted = <<>>
    /\ tasks = <<>>
    /\ cancels = <<>>

(***************************************************************************)
(* Reading markup as a sequence of events (quick_xml::Reader)              *)
(***************************************************************************)
\* the first position j >= i with text[j] = ch, 0 when there is none
IndexFrom(text, ch, i) ==
    LET hits == {j \in i..Len(text) : text[j] = ch}
    IN  IF hits = {} THEN 0 ELSE CHOOSE j \in hits : \A k \in hits : j <= k

Space == " "

\* the name of a tag: its content up to the first space
TagName(content) ==
    LET sp == IndexFrom(content, Space, 1)
    IN  IF sp = 0 THEN content ELSE SubSeq(content, 1, sp - 1)

\* the event for the markup between "<" and ">"
TagEvent(body) ==
    IF body # <<>> /\ Head(body) = "/"
    THEN [kind |-> "End", content |-> Tail(body)]
    ELSE IF body # <<>> /\ body[Len(body)] = "/"
    THEN [kind |-> "Empty", content |-> SubSeq(body, 1, Len(body) - 1)]
    ELSE [kind |-> "Start", content |-> body]

SyntaxError == [kind |-> "Err", content |-> <<>>]

\* the events of a text from position i on; a "<" with no ">" after it is a
\* syntax error, and reading stops there
RECURSIVE read_events(_, _)
read_events(text, i) ==
    IF i > Len(text) THEN <<>>
    ELSE IF text[i] = "<"
    THEN LET j == IndexFrom(text, ">", i)
         IN  IF j = 0 THEN <<SyntaxError>>
             ELSE <<TagEvent(SubSeq(text, i + 1, j - 1))>> \o read_events(text, j + 1)
    ELSE LET j == IndexFrom(text, "<", i)
             e == IF j = 0 THEN Len(text) + 1 ELSE j
         IN  <<[kind |-> "Text", content |-> SubSeq(text, i, e - 1)]>>
             \o read_events(text, e)

\* the open elements after the events: Start pushes its name, End must name
\* the innermost open element (check_end_names), anything else is an error
RECURSIVE OpenAfter(_, _)
OpenAfter(events, stack) ==
    IF events = <<>> THEN [ok |-> TRUE, stack |-> stack]
    ELSE LET e == Head(events)
         IN  IF e.kind = "Err" THEN [ok |-> FALSE, stack |-> stack]
             ELSE IF e.kind = "Start"
             THEN OpenAfter(Tail(events), <<TagName(e.content)>> \o stack)
             ELSE IF e.kind = "End"
             THEN IF stack # <<>> /\ Head(stack) = TagName(e.content)
                  THEN OpenAfter(Tail(events), Tail(stack))
                  ELSE [ok |-> FALSE, stack |-> stack]
             ELSE OpenAfter(Tail(events), stack)

\* well-formed markup: no syntax error, every element closed by its own end
\* tag, and exactly one root element with no text outside it
WellFormed(text) ==
    LET events == read_events(text, 1)
        nest == OpenAfter(events, <<>>)
        depth(k) == Len(OpenAfter(SubSeq(events, 1, k - 1), <<>>).stack)
        roots == {k \in DOMAIN events :
                     events[k].kind \in {"Start", "Empty"} /\ depth(k) = 0}
    IN  /\ nest.ok
        /\ nest.stack = <<>>
        /\ Cardinality(roots) = 1
        /\ \A k \in DOMAIN events : events[k].kind = "Text" => depth(k) > 0

(***************************************************************************)
(* finalize_project                                                        *)
(***************************************************************************)
\* every entry of svg_output with extension "svg" is copied, byte for byte,
\* over the entry of the same name in svg_final; _options is not read
FinalizeProject ==
    /\ pc = "load"
    /\ svg_output.exists
    /\ LET copied == {f \in svg_output.files : IsSvgEntry(f.name)}
           kept == {f \in svg_final.files : f.name \notin {c.name : c \in copied}}
       IN  svg_final' = DirOf(kept \cup copied)
    /\ UNCHANGED <<slides, config, build, pc, idx, zip, outfile, result,
                   svg_output, notes_dir, loadVars, validateVars, error, extVars>>

(***************************************************************************)
(* svg_to_png and load_slides                                              *)
(***************************************************************************)
\* two PNG payloads (signature bytes followed by a data byte)
PngBytes == {<<137, 80, 1>>, <<137, 80, 2>>}

RenderFailed == <<>>

\* what svg_to_png may return: usvg may reject the text (SvgParse),
\* Pixmap::new returns None for an empty canvas (PngConversion), otherwise
\* the encoded bitmap; the renderer is a library, its bytes are not modelled
svg_to_png(svg_content, width, height) ==
    IF ~WellFormed(svg_content) \/ width = U32(0, 0) \/ height = U32(0, 0)
    THEN {RenderFailed}
    ELSE {RenderFailed} \cup PngBytes

\* the error of a failed svg_to_png: roxmltree rejects text that is not
\* well-formed (SvgParse), Pixmap::new rejects an empty canvas (PngConversion)
svg_to_png_error(svg_content, width, height) ==
    IF ~WellFormed(svg_content) THEN {SvgParse}
    ELSE IF width = U32(0, 0) \/ height = U32(0, 0) THEN {PngConversion}
    ELSE {SvgParse, PngConversion}

\* mutant: an incompatible slide is still recorded as vector content
slide_content_NoFallback(svg_content, png) == SvgContent(svg_content)

\* match validate_svg(&svg_content) { Ok(_) => Svg(..), Err(_) => Png(..) }
slide_content(svg_content, png) ==
    IF validate_svg(svg_content).ok THEN SvgContent(svg_content) ELSE PngContent(png)

\* the svg_dir.exists() check, read_dir + filter + collect, and the sort
LoadBegin ==
    /\ pc = "load"
    /\ IF ~svg_final.exists
       THEN /\ result' = "Err"
            /\ error' = Io("NotFound")
            /\ pc' = "loaded"
            /\ UNCHANGED entries
       ELSE /\ \E order \in Orders({n \in FileNames(svg_final) : IsSvgEntry(n)}) :
                  entries' = sort_by_file_name(order)
            /\ pc' = "load_loop"
            /\ UNCHANGED <<result, error>>
    /\ slides' = <<>>
    /\ idx' = 0
    /\ UNCHANGED <<config, build, zip, outfile, fsVars, applied, validateVars,
                   extVars>>

\* one iteration of `for (index, entry) in entries.iter().enumerate()`
LoadSlide ==
    /\ pc = "load_loop"
    /\ idx < Len(entries)
    /\ LET name == entries[idx + 1]
           svg_content == FileText(svg_final, name)
           title == file_stem(name)
           slide_number == idx + 1
           notes == IF notes_dir.exists
                    THEN read_notes(notes_dir, slide_number, title)
                    ELSE NoNotes
       IN  \E png \in (IF validate_svg(svg_content).ok
                       THEN {RenderFailed}
                       ELSE svg_to_png(svg_content, config.width, config.height)) :
              IF ~validate_svg(svg_content).ok /\ png = RenderFailed
              THEN \* svg_to_png(..)? returns the error; the Vec is dropped
                   /\ slides' = <<>>
                   /\ applied' = <<>>
                   /\ result' = "Err"
                   /\ error' \in svg_to_png_error(svg_content, config.width,
                                                  config.height)
                   /\ pc' = "loaded"
                   /\ UNCHANGED idx
              ELSE /\ slides' = Append(slides,
                                   Slide(slide_number, title,
                                         slide_content(svg_content, png), notes))
                   \* no rewrite pass is called between read_to_string and
                   \* validate_svg
                   /\ applied' = Append(applied, <<>>)
                   /\ idx' = idx + 1
                   /\ UNCHANGED <<result, error, pc>>
    /\ UNCHANGED <<config, build, zip, outfile, fsVars, entries, validateVars,
                   extVars>>

\* Ok(slides)
LoadReturn ==
    /\ pc = "load_loop"
    /\ idx = Len(entries)
    /\ result' = "Ok"
    /\ pc' = "loaded"
    /\ UNCHANGED <<slides, config, build, idx, zip, outfile, fsVars, loadVars,
                   validateVars, error, extVars>>

\* read_dir(&svg_dir)? or read_to_string(&path)? fails
LoadIoError ==
    /\ \/ pc = "load" /\ svg_final.exists
       \/ pc = "load_loop" /\ idx < Len(entries)
    /\ slides' = <<>>
    /\ applied' = <<>>
    /\ result' = "Err"
    /\ error' = Io("Other")
    /\ pc' = "loaded"
    /\ UNCHANGED <<config, build, idx, zip, outfile, fsVars, entries, validateVars,
                   extVars>>

(***************************************************************************)
(* Inputs of load_slides                                                   *)
(***************************************************************************)
\* "<mask/>" and "<text><tspan>a</tspan></text>"
MaskSvg == <<"<", "m", "a", "s", "k", "/", ">">>
TspanSvg ==
    <<"<", "t", "e", "x", "t", ">", "<", "t", "s", "p", "a", "n", ">", "a",
      "<", "/", "t", "s", "p", "a", "n", ">", "<", "/", "t", "e", "x", "t", ">">>

LoadDocs == {MaskSvg, TspanSvg}

\* "a.svg", "B.svg", "c.txt", ".svg", "10.Svg", "2.svg"
SvgDirNames ==
    {<<97, 46, 115, 118, 103>>,
     <<66, 46, 115, 118, 103>>,
     <<99, 46, 116, 120, 116>>,
     <<46, 115, 118, 103>>,
     <<49, 48, 46, 83, 118, 103>>,
     <<50, 46, 115, 118, 103>>}

\* "01_a.md", "1_a.md", "01.md", "1.md", "02_a.md"
NotesNames ==
    <<<<48, 49, 95, 97, 46, 109, 100>>,
      <<49, 95, 97, 46, 109, 100>>,
      <<48, 49, 46, 109, 100>>,
      <<49, 46, 109, 100>>,
      <<48, 50, 95, 97, 46, 109, 100>>>>

\* the content of the k-th notes file: "n<k>"
NotesFile(k) == File(NotesNames[k], <<"n", ToString(k)>>)

SvgDirs ==
    {NoDir} \cup
    UNION {{DirOf({File(n, t[n]) : n \in names}) : t \in [names -> LoadDocs]} :
              names \in {S \in SUBSET SvgDirNames : Cardinality(S) <= MaxFiles}}

NotesDirs ==
    {NoDir} \cup
    {DirOf({NotesFile(k) : k \in K}) :
        K \in {S \in SUBSET DOMAIN NotesNames : Cardinality(S) <= MaxNotes}}

\* svg_output: absent, or "a.svg" (with a tspan) next to "c.txt"
SvgOutputDirs ==
    {NoDir,
     DirOf({File(<<97, 46, 115, 118, 103>>, TspanSvg),
            File(<<99, 46, 116, 120, 116>>, CleanSvg)})}

\* PptxConfig::default(): 1280 x 720
LoadConfigs == {[width |-> U32(0, 1280), height |-> U32(0, 720)]}

InitLoad ==
    /\ JobsIdle
    /\ svg_output \in SvgOutputDirs
    /\ svg_final \in SvgDirs
    /\ notes_dir \in NotesDirs
    /\ config \in LoadConfigs
    /\ build = "release"
    /\ pc = "load"
    /\ slides = <<>>
    /\ entries = <<>>
    /\ applied = <<>>
    /\ idx = 0
    /\ zip = <<>>
    /\ outfile = FALSE
    /\ result = "none"
    /\ doc = <<>>
    /\ verdict = NoVerdict
    /\ error = NoError
    /\ request = NoRequest
    /\ response = NoResponse
    /\ calls = <<>>
    /\ child = NoChild
    /\ captured = NoCapture
    /\ pass_in = NoPass
    /\ pass_out = NoPass

NextLoad == FinalizeProject \/ LoadBegin \/ LoadSlide \/ LoadReturn \/ LoadIoError

SpecLoad == InitLoad /\ [][NextLoad]_vars

(***************************************************************************)
(* NativeOoxml::export, one action per group of writes                     *)
(***************************************************************************)
\* does either config.width * 9525 or config.height * 9525 overflow u32?
EmuOverflows(cfg) ==
    MulOverflows(cfg.width, EmuPerPixel) \/ MulOverflows(cfg.height, EmuPerPixel)

\* File::create, then [Content_Types].xml, _rels/.rels, ppt/presentation.xml
\* and ppt/_rels/presentation.xml.rels
ExportBegin ==
    /\ pc = "export"
    /\ outfile' = TRUE
    /\ IF build = "debug" /\ EmuOverflows(config)
       THEN \* attempt to multiply with overflow: generate_presentation panics
            /\ zip' = <<Entry(ContentTypesPart, generate_content_types(Len(slides))),
                        Entry(RootRelsPart, generate_root_rels)>>
            /\ result' = "Panic"
            /\ pc' = "done"
       ELSE /\ zip' = <<Entry(ContentTypesPart, generate_content_types(Len(slides))),
                        Entry(RootRelsPart, generate_root_rels),
                        Entry(PresentationPart,
                              generate_presentation(Len(slides), config)),
                        Entry(PresentationRelsPart,
                              generate_presentation_rels(Len(slides)))>>
            /\ pc' = "export_slides"
            /\ UNCHANGED result
    /\ idx' = 0
    /\ UNCHANGED <<slides, config, build, fsVars, loadVars, validateVars, error,
                   extVars>>

\* one iteration of `for (index, slide) in slides.iter().enumerate()`
SlideEntries(index, slide) ==
    LET slide_num == index + 1
    IN  <<Entry(SlidePart(slide_num), generate_slide(slide, config)),
          Entry(SlideRelsPart(slide_num), generate_slide_rels(slide_num))>>
        \o (IF slide.notes.some
            THEN <<Entry(NotesSlidePart(slide_num), generate_notes_slide(slide))>>
            ELSE <<>>)
        \o (IF slide.content.type = "Png"
            THEN <<Entry(MediaPart(slide_num),
                         [kind |-> "png", bytes |-> slide.content.png])>>
            ELSE <<>>)

ExportSlide ==
    /\ pc = "export_slides"
    /\ idx < Len(slides)
    /\ zip' = zip \o SlideEntries(idx, slides[idx + 1])
    /\ idx' = idx + 1
    /\ UNCHANGED <<slides, config, build, pc, outfile, result, fsVars, loadVars,
                   validateVars, error, extVars>>

\* slideLayout1.xml, slideMaster1.xml, zip.finish()
ExportFinish ==
    /\ pc = "export_slides"
    /\ idx = Len(slides)
    /\ zip' = zip \o <<Entry(SlideLayoutPart, generate_slide_layout),
                       Entry(SlideMasterPart, generate_slide_master)>>
    /\ result' = "Ok"
    /\ pc' = "done"
    /\ UNCHANGED <<slides, config, build, idx, outfile, fsVars, loadVars,
                   validateVars, error, extVars>>

\* any `?` of export: File::create, start_file, write_all or finish fails
ExportIoError ==
    /\ pc \in {"export", "export_slides"}
    /\ IF pc = "export" THEN outfile' \in BOOLEAN ELSE UNCHANGED outfile
    /\ result' = "Err"
    /\ error' \in {Io("Other"), Zip}
    /\ pc' = "done"
    /\ UNCHANGED <<slides, config, build, idx, zip, fsVars, loadVars, validateVars,
                   extVars>>

(***************************************************************************)
(* Inputs of export                                                        *)
(***************************************************************************)
NotesTexts == {<<"a", "&", "<", "'", ">", "\"">>}
\* "a"
Titles == {<<97>>}

\* 1280 and 720; 450915 is the largest u32 whose product with 9525 fits in
\* 32 bits, 450916 the smallest whose product does not; u32::MAX
Widths == {U32(0, 1280), U32(6, 57699), U32(6, 57700), U32(65535, 65535)}
Heights == {U32(0, 720), U32(6, 57700)}

Configs == {[width |-> w, height |-> h] : w \in Widths, h \in Heights}

ExportSlideAt(i) ==
    {Slide(n, t, c, nt) :
        n \in {i, i + 1}, t \in Titles,
        c \in {SvgContent(CleanSvg)} \cup {PngContent(b) : b \in PngBytes},
        nt \in {NoNotes} \cup {SomeNotes(x) : x \in NotesTexts}}

ExportInputs ==
    UNION {{s \in [1..n -> UNION {ExportSlideAt(i) : i \in 1..n}] :
               \A i \in 1..n : s[i] \in ExportSlideAt(i)} : n \in 0..MaxSlides}

InitExport ==
    /\ JobsIdle
    /\ slides \in ExportInputs
    /\ config \in Configs
    /\ build \in {"debug", "release"}
    /\ pc = "export"
    /\ idx = 0
    /\ zip = <<>>
    /\ outfile = FALSE
    /\ result = "none"
    /\ svg_output = NoDir
    /\ svg_final = NoDir
    /\ notes_dir = NoDir
    /\ entries = <<>>
    /\ applied = <<>>
    /\ doc = <<>>
    /\ verdict = NoVerdict
    /\ error = NoError
    /\ request = NoRequest
    /\ response = NoResponse
    /\ calls = <<>>
    /\ child = NoChild
    /\ captured = NoCapture
    /\ pass_in = NoPass
    /\ pass_out = NoPass

NextExport == ExportBegin \/ ExportSlide \/ ExportFinish \/ ExportIoError

SpecExport == InitExport /\ [][NextExport]_vars

(***************************************************************************)
(* Reading an archive back                                                 *)
(***************************************************************************)
PartNames == {zip[i].name : i \in DOMAIN zip}

HasPart(name) == name \in PartNames

PartBody(name) == zip[CHOOSE i \in DOMAIN zip : zip[i].name = name].body

Dir(part) == SubSeq(part, 1, Len(part) - 1)

PartsIn(dir) == {i \in DOMAIN zip : Dir(zip[i].name) = dir}

\* the relationships part of a part: <dir>/_rels/<file>.rels
RelsPartOf(part) == Dir(part) \o <<"_rels", part[Len(part)] \o ".rels">>

\* a relationship target, resolved against the directory of the source part
RECURSIVE Resolve(_, _)
Resolve(dir, target) ==
    IF target = <<>> THEN dir
    ELSE IF Head(target) = ".." THEN Resolve(Dir(dir), Tail(target))
    ELSE Resolve(dir \o <<Head(target)>>, Tail(target))

DeclaredRels(part) ==
    IF HasPart(RelsPartOf(part)) THEN PartBody(RelsPartOf(part)).rels ELSE <<>>

DeclaredIds(part) == {DeclaredRels(part)[k].id : k \in DOMAIN DeclaredRels(part)}

\* the relationship IDs a generated part uses in its own markup
UsedIds(body) ==
    IF body.kind = "presentation"
    THEN {body.sldMasterIdLst[k].rid : k \in DOMAIN body.sldMasterIdLst}
         \cup {body.sldIdLst[k].rid : k \in DOMAIN body.sldIdLst}
    ELSE IF body.kind = "slide" THEN SeqToSet(body.content.embed)
    ELSE IF body.kind = "sldMaster"
    THEN {body.sldLayoutIdLst[k].rid : k \in DOMAIN body.sldLayoutIdLst}
    ELSE {}

ExportSucceeded == pc = "done" /\ result = "Ok"

(***************************************************************************)
(* Claims about NativeOoxml                                                *)
(***************************************************************************)
\* C1: after a successful export, every relationship declared in a per-slide
\* relationships part targets a part that exists in the archive (the image
\* target under ppt/media, the notes target under ppt/notesSlides).
C1_SlideRelTargetsExist ==
    ExportSucceeded =>
        \A n \in 1..Len(slides) :
            \A k \in DOMAIN DeclaredRels(SlidePart(n)) :
                HasPart(Resolve(Dir(SlidePart(n)), DeclaredRels(SlidePart(n))[k].target))

\* C2: a successful export of n slides writes exactly the slide parts
\* slide1.xml .. slideN.xml, exactly one layout part and one master part, and
\* the content-types manifest has an override for each of them.
C2_PartCounts ==
    ExportSucceeded =>
        LET overrides == SeqToSet(PartBody(ContentTypesPart).overrides)
            counted == PartsIn(<<"ppt", "slides">>)
                       \cup PartsIn(<<"ppt", "slideLayouts">>)
                       \cup PartsIn(<<"ppt", "slideMasters">>)
        IN  /\ Cardinality(PartsIn(<<"ppt", "slides">>)) = Len(slides)
            /\ {zip[i].name : i \in PartsIn(<<"ppt", "slides">>)}
                 = {SlidePart(n) : n \in 1..Len(slides)}
            /\ Cardinality(PartsIn(<<"ppt", "slideLayouts">>)) = 1
            /\ Cardinality(PartsIn(<<"ppt", "slideMasters">>)) = 1
            /\ \A i \in counted : (<<"">> \o zip[i].name) \in overrides

C2_Witness == ExportSucceeded /\ Len(slides) >= 2

\* C3: in every archive produced, each relationship ID used inside a generated
\* part is declared in that part's own relationships part, and no
\* relationships part declares the same ID twice.
C3_UsedIdsDeclared ==
    ExportSucceeded =>
        /\ \A i \in DOMAIN zip :
              UsedIds(zip[i].body) \subseteq DeclaredIds(zip[i].name)
        /\ \A i \in DOMAIN zip :
              zip[i].body.kind = "rels" =>
                 \A j, k \in DOMAIN zip[i].body.rels :
                    zip[i].body.rels[j].id = zip[i].body.rels[k].id => j = k

\* C4: in one export, every raster slide gets a PNG media part holding its
\* bytes and a slide document whose picture references an image relationship
\* of that slide's relationships part that targets that media part; every
\* vector slide gets a placeholder-shape document and no media part.
ImageTargets(n) ==
    {Resolve(Dir(SlidePart(n)), DeclaredRels(SlidePart(n))[k].target) :
        k \in {j \in DOMAIN DeclaredRels(SlidePart(n)) :
                 /\ DeclaredRels(SlidePart(n))[j].type = "image"
                 /\ DeclaredRels(SlidePart(n))[j].id
                       \in SeqToSet(PartBody(SlidePart(n)).content.embed)}}

C4_RasterAndVector ==
    ExportSucceeded =>
        /\ \A n \in 1..Len(slides) :
              LET pml == PartBody(SlidePart(n)).content
              IN  IF slides[n].content.type = "Png"
                  THEN /\ pml.tag = "pic"
                       /\ Len(pml.embed) = 1
                       /\ Cardinality(ImageTargets(n)) = 1
                       /\ \A t \in ImageTargets(n) :
                             /\ HasPart(t)
                             /\ Dir(t) = <<"ppt", "media">>
                             /\ PartBody(t).kind = "png"
                             /\ PartBody(t).bytes = slides[n].content.png
                  ELSE /\ pml.tag = "sp"
                       /\ pml.embed = <<>>
                       /\ \A k \in DOMAIN DeclaredRels(SlidePart(n)) :
                             DeclaredRels(SlidePart(n))[k].type = "image" =>
                                ~HasPart(Resolve(Dir(SlidePart(n)),
                                                 DeclaredRels(SlidePart(n))[k].target))
        /\ Cardinality(PartsIn(<<"ppt", "media">>))
              = Cardinality({n \in 1..Len(slides) : slides[n].content.type = "Png"})

C4_Witness ==
    /\ ExportSucceeded
    /\ \E m, n \in 1..Len(slides) :
          /\ slides[m].content.type = "Png"
          /\ slides[n].content.type = "Svg"
          /\ slides[m].number # m

\* C9: for every configuration with positive width and height, the canvas size
\* written in the presentation document and the full-bleed extents written in
\* slide documents equal exactly width*9525 and height*9525.
ExactEmu(written, px) == <<0>> \o written = MulWide(px, EmuPerPixel)

C9_ExactCanvas ==
    \A i \in DOMAIN zip :
        /\ zip[i].body.kind = "presentation" =>
              /\ ExactEmu(zip[i].body.sldSz.cx, config.width)
              /\ ExactEmu(zip[i].body.sldSz.cy, config.height)
        /\ zip[i].body.kind = "slide" =>
              /\ ExactEmu(zip[i].body.ext.cx, config.width)
              /\ ExactEmu(zip[i].body.ext.cy, config.height)
              /\ zip[i].body.content.tag = "pic" =>
                    /\ ExactEmu(zip[i].body.content.ext.cx, config.width)
                    /\ ExactEmu(zip[i].body.content.ext.cy, config.height)

(***************************************************************************)
(* Claims about load_slides and read_notes                                 *)
(***************************************************************************)
Loading == pc \in {"load_loop", "loaded"}

LoadSucceeded == pc = "loaded" /\ result = "Ok"

\* C5: every slide of a load records exactly one content variant, chosen by
\* the validator alone: raster iff validate_svg rejects the slide's SVG,
\* vector (carrying the SVG text) iff it accepts it, whatever the other
\* slides of the load are.
C5_ContentByValidator ==
    Loading =>
        \A i \in DOMAIN slides :
            LET svg == FileText(svg_final, entries[i])
                c == slides[i].content
            IN  /\ c.type \in {"Svg", "Png"}
                /\ c.type = "Png" <=> ~validate_svg(svg).ok
                /\ c.type = "Svg" <=> validate_svg(svg).ok
                /\ c.type = "Svg" => c.svg = svg /\ c.png = <<>>
                /\ c.type = "Png" => c.svg = <<>> /\ c.png \in PngBytes

C5_Witness ==
    /\ LoadSucceeded
    /\ \E i, j \in DOMAIN slides :
          slides[i].content.type = "Png" /\ slides[j].content.type = "Svg"

\* C6: during load_slides every slide's SVG is put through the five rewrite
\* passes in the canonical order before it is validated, so that the markup
\* validated, rasterized or recorded is the output of the last pass.
CanonicalPasses ==
    <<"rect_to_path", "fix_image_aspect", "embed_images", "embed_icons",
      "flatten_tspan">>

C6_PassesBeforeValidation ==
    Loading => \A i \in DOMAIN slides : applied[i] = CanonicalPasses

\* C7: load_slides returns exactly one slide for each file of svg_final whose
\* extension is "svg" (case-insensitively) and none for other files, in
\* lexicographic order of file name, numbered 1..n, titled by the file stem.
EndsInDotSvg(name) ==
    /\ Len(name) > 4
    /\ name[Len(name) - 3] = 46
    /\ name[Len(name) - 2] \in {115, 83}
    /\ name[Len(name) - 1] \in {118, 86}
    /\ name[Len(name)] \in {103, 71}

Padded(n) == <<48 + (n \div 10), 48 + (n % 10)>>
Plain(n) == IF n < 10 THEN <<48 + n>> ELSE Padded(n)

Candidates(n, title) ==
    <<Padded(n) \o <<95>> \o title \o <<46, 109, 100>>,
      Plain(n) \o <<95>> \o title \o <<46, 109, 100>>,
      Padded(n) \o <<46, 109, 100>>,
      Plain(n) \o <<46, 109, 100>>>>

C8_FirstExistingNotes ==
    Loading =>
        \A i \in DOMAIN slides :
            LET cand == Candidates(i, slides[i].title)
                present == {k \in 1..4 : \E f \in notes_dir.files : f.name = cand[k]}
            IN  IF ~notes_dir.exists \/ present = {}
                THEN ~slides[i].notes.some
                ELSE \E k \in present :
                        /\ \A j \in present : k <= j
                        /\ slides[i].notes.some
                        /\ \E f \in notes_dir.files :
                              f.name = cand[k] /\ f.text = slides[i].notes.text

\* slide 1 is "a.svg" and both 01_a.md and 1_a.md exist
C8_Witness ==
    /\ LoadSucceeded
    /\ Len(slides) >= 1
    /\ slides[1].notes.some
    /\ Cardinality({k \in 1..2 : Candidates(1, slides[1].title)[k]
                                    \in FileNames(notes_dir)}) = 2

(***************************************************************************)
(* Inputs of validate_svg: documents assembled from markup fragments.  Each *)
(* fragment is listed with the blacklisted features it really contains.    *)
(***************************************************************************)
Fragments ==
  <<
    \* 1: <rect fill="red"/>
      [features |-> {},
       text |->
        <<"<", "r", "e", "c", "t", " ", "f", "i", "l", "l", "=", "\"", "r",
          "e", "d", "\"", "/", ">">>],
    \* 2: <clipPath id="c"/>
      [features |-> {"clip-path"},
       text |->
        <<"<", "c", "l", "i", "p", "P", "a", "t", "h", " ", "i", "d", "=",
          "\"", "c", "\"", "/", ">">>],
    \* 3: <mask id="m"/>
      [features |-> {"mask"},
       text |->
        <<"<", "m", "a", "s", "k", " ", "i", "d", "=", "\"", "m", "\"",
          "/", ">">>],
    \* 4: <style>a{}</style>
      [features |-> {"style"},
       text |->
        <<"<", "s", "t", "y", "l", "e", ">", "a", "{", "}", "<", "/", "s",
          "t", "y", "l", "e", ">">>],
    \* 5: <g class="a"/>
      [features |-> {"class"},
       text |->
        <<"<", "g", " ", "c", "l", "a", "s", "s", "=", "\"", "a", "\"",
          "/", ">">>],
    \* 6: <foreignObject/>
      [features |-> {"foreignObject"},
       text |->
        <<"<", "f", "o", "r", "e", "i", "g", "n", "O", "b", "j", "e", "c",
          "t", "/", ">">>],
    \* 7: <textPath/>
      [features |-> {"text-on-path"},
       text |->
        <<"<", "t", "e", "x", "t", "P", "a", "t", "h", "/", ">">>],
    \* 8: <style>@font-face{}</style>
      [features |-> {"style", "font-face"},
       text |->
        <<"<", "s", "t", "y", "l", "e", ">", "@", "f", "o", "n", "t", "-",
          "f", "a", "c", "e", "{", "}", "<", "/", "s", "t", "y", "l", "e",
          ">">>],
    \* 9: <animate/>
      [features |-> {"animation"},
       text |->
        <<"<", "a", "n", "i", "m", "a", "t", "e", "/", ">">>],
    \* 10: <path marker-end="url(#a)"/>
      [features |-> {"marker"},
       text |->
        <<"<", "p", "a", "t", "h", " ", "m", "a", "r", "k", "e", "r", "-",
          "e", "n", "d", "=", "\"", "u", "r", "l", "(", "#", "a", ")",
          "\"", "/", ">">>],
    \* 11: <path marker-start="url(#a)"/>
      [features |-> {"marker"},
       text |->
        <<"<", "p", "a", "t", "h", " ", "m", "a", "r", "k", "e", "r", "-",
          "s", "t", "a", "r", "t", "=", "\"", "u", "r", "l", "(", "#", "a",
          ")", "\"", "/", ">">>],
    \* 12: <path marker-mid="url(#a)"/>
      [features |-> {"marker"},
       text |->
        <<"<", "p", "a", "t", "h", " ", "m", "a", "r", "k", "e", "r", "-",
          "m", "i", "d", "=", "\"", "u", "r", "l", "(", "#", "a", ")",
          "\"", "/", ">">>],
    \* 13: <text>mask</text>
      [features |-> {},
       text |->
        <<"<", "t", "e", "x", "t", ">", "m", "a", "s", "k", "<", "/", "t",
          "e", "x", "t", ">">>]
  >>

\* "<svg>" fragments "</svg>"
DocText(d) ==
    <<"<", "s", "v", "g", ">">>
    \o Concat([k \in DOMAIN d |-> Fragments[d[k]].text])
    \o <<"<", "/", "s", "v", "g", ">">>

Docs == UNION {[1..n -> DOMAIN Fragments] : n \in 0..MaxFrags}

ValidateSvg ==
    /\ pc = "validate"
    /\ verdict' = validate_svg(DocText(doc))
    /\ pc' = "validated"
    /\ UNCHANGED <<slides, config, build, idx, zip, outfile, result, fsVars,
                   loadVars, doc, error, extVars>>

InitValidate ==
    /\ JobsIdle
    /\ doc \in Docs
    /\ verdict = NoVerdict
    /\ error = NoError
    /\ request = NoRequest
    /\ response = NoResponse
    /\ calls = <<>>
    /\ child = NoChild
    /\ captured = NoCapture
    /\ pass_in = NoPass
    /\ pass_out = NoPass
    /\ pc = "validate"
    /\ slides = <<>>
    /\ config = [width |-> U32(0, 1280), height |-> U32(0, 720)]
    /\ build = "release"
    /\ idx = 0
    /\ zip = <<>>
    /\ outfile = FALSE
    /\ result = "none"
    /\ svg_output = NoDir
    /\ svg_final = NoDir
    /\ notes_dir = NoDir
    /\ entries = <<>>
    /\ applied = <<>>

NextValidate == ValidateSvg

SpecValidate == InitValidate /\ [][NextValidate]_vars

(***************************************************************************)
(* Claims about validate_svg                                               *)
(***************************************************************************)
DocFeatures(d) == UNION {Fragments[d[k]].features : k \in DOMAIN d}

\* the feature each blacklist entry stands for, in blacklist order
BlacklistFeature ==
    <<"clip-path", "mask", "style", "class", "foreignObject", "text-on-path",
      "font-face", "animation", "marker">>

NamedFeature(v) ==
    BlacklistFeature[CHOOSE k \in DOMAIN blacklist : blacklist[k] = v.feature]

\* C10: validate_svg never accepts a document that contains a blacklisted
\* feature (an arrow marker in any of its forms included); on rejection it
\* names a feature that is present in the document; and it accepts a document
\* that contains none of the features.
C10_ValidatorSound ==
    pc = "validated" =>
        /\ DocFeatures(doc) # {} => ~verdict.ok
        /\ ~verdict.ok => NamedFeature(verdict) \in DocFeatures(doc)
        /\ DocFeatures(doc) = {} => verdict.ok

(***************************************************************************)
(* serde_json::from_str::<Value>, for the JSON written without escapes     *)
(***************************************************************************)
JsonDigits == {"0", "1", "2", "3", "4", "5", "6", "7", "8", "9"}
JsonSpace == {" ", "\n"}
JsonFail == [ok |-> FALSE, value |-> [type |-> "none"], next |-> 0]
JsonOk(value, next) == [ok |-> TRUE, value |-> value, next |-> next]

\* the first position >= i that holds no whitespace
RECURSIVE skip_ws(_, _)
skip_ws(text, i) ==
    IF i <= Len(text) /\ text[i] \in JsonSpace THEN skip_ws(text, i + 1) ELSE i

\* does the word w stand at position i?
IsAt(text, i, w) == i + Len(w) - 1 <= Len(text) /\ SubSeq(text, i, i + Len(w) - 1) = w

\* the first position >= i that holds no digit
RECURSIVE skip_digits(_, _)
skip_digits(text, i) ==
    IF i <= Len(text) /\ text[i] \in JsonDigits THEN skip_digits(text, i + 1) ELSE i

RECURSIVE parse_value(_, _)
RECURSIVE parse_items(_, _, _)
RECURSIVE parse_members(_, _, _)

\* a string literal starting at the quote at position i
parse_string(text, i) ==
    LET close == IndexFrom(text, "\"", i + 1)
    IN  IF i > Len(text) \/ text[i] # "\"" \/ close = 0 THEN JsonFail
        ELSE JsonOk([type |-> "string", s |-> SubSeq(text, i + 1, close - 1)],
                    close + 1)

\* In the operators below a parsed value is bound as the element of a
\* one-element set, so that it is computed once however often it is used.

\* the items of an array after "[" or after a ","
parse_items(text, i, items) ==
    CHOOSE r \in
        {LET j == skip_ws(text, v.next)
         IN  IF ~v.ok \/ j > Len(text) THEN JsonFail
             ELSE IF text[j] = "]"
             THEN JsonOk([type |-> "array", items |-> Append(items, v.value)], j + 1)
             ELSE IF text[j] = ","
             THEN parse_items(text, j + 1, Append(items, v.value))
             ELSE JsonFail : v \in {parse_value(text, i)}} : TRUE

\* the members of an object after "{" or after a ","
parse_members(text, i, members) ==
    CHOOSE r \in
        {LET c == skip_ws(text, k.next)
         IN  IF ~k.ok \/ c > Len(text) \/ text[c] # ":" THEN JsonFail
             ELSE CHOOSE q \in
                 {LET j == skip_ws(text, v.next)
                      member == [key |-> k.value.s, value |-> v.value]
                  IN  IF ~v.ok \/ j > Len(text) THEN JsonFail
                      ELSE IF text[j] = "}"
                      THEN JsonOk([type |-> "object",
                                   members |-> Append(members, member)], j + 1)
                      ELSE IF text[j] = ","
                      THEN parse_members(text, j + 1, Append(members, member))
                      ELSE JsonFail : v \in {parse_value(text, c + 1)}} : TRUE
         : k \in {parse_string(text, skip_ws(text, i))}} : TRUE

\* one JSON value, after optional whitespace
parse_value(text, i0) ==
    LET i == skip_ws(text, i0)
    IN  IF i > Len(text) THEN JsonFail
        ELSE IF IsAt(text, i, <<"n", "u", "l", "l">>)
        THEN JsonOk([type |-> "null"], i + 4)
        ELSE IF IsAt(text, i, <<"t", "r", "u", "e">>)
        THEN JsonOk([type |-> "bool"], i + 4)
        ELSE IF IsAt(text, i, <<"f", "a", "l", "s", "e">>)
        THEN JsonOk([type |-> "bool"], i + 5)
        ELSE IF text[i] \in JsonDigits
        THEN JsonOk([type |-> "number"], skip_digits(text, i))
        ELSE IF text[i] = "\"" THEN parse_string(text, i)
        ELSE IF text[i] = "["
        THEN IF IsAt(text, skip_ws(text, i + 1), <<"]">>)
             THEN JsonOk([type |-> "array", items |-> <<>>], skip_ws(text, i + 1) + 1)
             ELSE parse_items(text, i + 1, <<>>)
        ELSE IF text[i] = "{"
        THEN IF IsAt(text, skip_ws(text, i + 1), <<"}">>)
             THEN JsonOk([type |-> "object", members |-> <<>>],
                         skip_ws(text, i + 1) + 1)
             ELSE parse_members(text, i + 1, <<>>)
        ELSE JsonFail

\* serde_json::from_str: one value, then nothing but whitespace
from_str(text) ==
    CHOOSE r \in {IF v.ok /\ skip_ws(text, v.next) > Len(text) THEN v ELSE JsonFail :
                     v \in {parse_value(text, 1)}} : TRUE

\* Value::get(key): the member of an object with that key (the last one when
\* the key is repeated); None for a missing key and for any non-object
Value_get(value, key) ==
    IF value.type # "object" THEN [some |-> FALSE, value |-> [type |-> "none"]]
    ELSE LET hits == {k \in DOMAIN value.members : value.members[k].key = key}
         IN  IF hits = {} THEN [some |-> FALSE, value |-> [type |-> "none"]]
             ELSE [some |-> TRUE,
                   value |-> value.members[CHOOSE k \in hits :
                                              \A j \in hits : j <= k].value]

(***************************************************************************)
(* PptxGenSidecar: the node process, its pipes, and export_async           *)
(***************************************************************************)
\* chunks a pipe holds before a write to it blocks
PipeCap == 1
\* chunks of the serialized request
MaxRequest == 2

\* is_available(): `node --version` could be spawned
is_available(proc) == proc.spawnable

\* the status check, and the check of the parsed response for "error"
check_response(code, stdout, stderr, parsed) ==
    IF code # 0
    THEN [result |-> "Err", error |-> Backend("sidecar_failed", <<stdout, stderr>>)]
    ELSE IF ~parsed.ok
    THEN \* the serde_json error names a line and a column, not the text
         [result |-> "Err", error |-> Backend("parse_failed", <<>>)]
    ELSE CHOOSE r \in
        {IF field.some
         THEN [result |-> "Err",
               error |-> Backend("sidecar_error",
                                 <<IF field.value.type = "string"
                                   THEN field.value.s
                                   ELSE <<"u", "n", "k", "n", "o", "w", "n">>>>)]
         ELSE [result |-> "Ok", error |-> NoError] :
            field \in {Value_get(parsed.value, <<"e", "r", "r", "o", "r">>)}} : TRUE

\* what export_async returns once the process has exited with `code`
export_outcome(code, stdout, stderr) ==
    CHOOSE r \in {check_response(code, stdout, stderr, parsed) :
                     parsed \in {from_str(stdout)}} : TRUE

\* the operation the process is about to perform
Op(proc) == proc.prog[proc.ip]
Running(proc) == proc.state = "running" /\ proc.ip <= Len(proc.prog)

\* Command::new("node").spawn()
SidecarSpawn ==
    /\ pc = "sidecar"
    /\ IF child.spawnable
       THEN /\ child' = [child EXCEPT !.state = "running"]
            /\ pc' = "write_stdin"
            /\ UNCHANGED <<result, error>>
       ELSE /\ result' = "Err"
            /\ error' = Backend("spawn_failed", <<>>)
            /\ pc' = "sidecar_done"
            /\ UNCHANGED child
    /\ UNCHANGED <<slides, config, build, idx, zip, outfile, fsVars, loadVars,
                   validateVars, cmdVars, captured, passVars, jobVars>>

\* stdin.write_all(request_json), stdin.flush(), and the drop of stdin
SidecarWrite ==
    /\ pc = "write_stdin"
    /\ IF captured.to_write = 0
       THEN /\ child' = [child EXCEPT !.stdin.open = FALSE]
            /\ pc' = "read_stdout"
            /\ UNCHANGED <<captured, result, error>>
       ELSE IF child.state = "exited"
       THEN \* the read end is closed: EPIPE
            /\ result' = "Err"
            /\ error' = Backend("write_stdin_failed", <<>>)
            /\ pc' = "sidecar_done"
            /\ UNCHANGED <<child, captured>>
       ELSE /\ child.stdin.n < PipeCap
            /\ child' = [child EXCEPT !.stdin.n = @ + 1]
            /\ captured' = [captured EXCEPT !.to_write = @ - 1]
            /\ UNCHANGED <<pc, result, error>>
    /\ UNCHANGED <<slides, config, build, idx, zip, outfile, fsVars, loadVars,
                   validateVars, cmdVars, passVars, jobVars>>

\* out.read_to_string(&mut stdout): chunk by chunk, until end of file
SidecarReadStdout ==
    /\ pc = "read_stdout"
    /\ IF child.stdout.buf # <<>>
       THEN /\ captured' = [captured EXCEPT !.stdout = @ \o Head(child.stdout.buf)]
            /\ child' = [child EXCEPT !.stdout.buf = Tail(@)]
            /\ UNCHANGED pc
       ELSE /\ ~child.stdout.open
            /\ pc' = "read_stderr"
            /\ UNCHANGED <<child, captured>>
    /\ UNCHANGED <<slides, config, build, idx, zip, outfile, result, error, fsVars,
                   loadVars, validateVars, cmdVars, passVars, jobVars>>

\* err.read_to_string(&mut stderr)
SidecarReadStderr ==
    /\ pc = "read_stderr"
    /\ IF child.stderr.buf # <<>>
       THEN /\ captured' = [captured EXCEPT !.stderr = @ \o Head(child.stderr.buf)]
            /\ child' = [child EXCEPT !.stderr.buf = Tail(@)]
            /\ UNCHANGED pc
       ELSE /\ ~child.stderr.open
            /\ pc' = "wait"
            /\ UNCHANGED <<child, captured>>
    /\ UNCHANGED <<slides, config, build, idx, zip, outfile, result, error, fsVars,
                   loadVars, validateVars, cmdVars, passVars, jobVars>>

\* child.wait(), then the status check and the parse of the response
SidecarWait ==
    /\ pc = "wait"
    /\ child.state = "exited"
    /\ result' = export_outcome(child.code, captured.stdout, captured.stderr).result
    /\ error' = export_outcome(child.code, captured.stdout, captured.stderr).error
    /\ pc' = "sidecar_done"
    /\ UNCHANGED <<slides, config, build, idx, zip, outfile, fsVars, loadVars,
                   validateVars, cmdVars, sidecarVars, passVars, jobVars>>

\* Runtime::new(), serde_json::to_string, a read or wait fails
SidecarIoError ==
    /\ pc \in {"sidecar", "read_stdout", "read_stderr", "wait"}
    /\ result' = "Err"
    /\ error' = IF pc = "sidecar" THEN Backend("runtime_failed", <<>>)
                ELSE Backend(pc \o "_failed", <<>>)
    /\ pc' = "sidecar_done"
    /\ UNCHANGED <<slides, config, build, idx, zip, outfile, fsVars, loadVars,
                   validateVars, cmdVars, sidecarVars, passVars, jobVars>>

(***************************************************************************)
(* The node process: one action per kind of operation of its program       *)
(***************************************************************************)
\* read standard input to its end
ChildRead ==
    /\ Running(child)
    /\ Op(child).op = "read"
    /\ IF child.stdin.n > 0
       THEN child' = [child EXCEPT !.stdin.n = @ - 1]
       ELSE /\ ~child.stdin.open
            /\ child' = [child EXCEPT !.ip = @ + 1]
    /\ UNCHANGED <<slides, config, build, pc, idx, zip, outfile, result, error,
                   fsVars, loadVars, validateVars, cmdVars, captured, passVars,
                   jobVars>>

\* write one chunk to standard output or standard error; blocks on a full pipe
ChildWrite ==
    /\ Running(child)
    /\ Op(child).op \in {"out", "err"}
    /\ IF Op(child).op = "out"
       THEN /\ Len(child.stdout.buf) < PipeCap
            /\ child' = [child EXCEPT !.stdout.buf = Append(@, Op(child).text),
                                      !.ip = @ + 1]
       ELSE /\ Len(child.stderr.buf) < PipeCap
            /\ child' = [child EXCEPT !.stderr.buf = Append(@, Op(child).text),
                                      !.ip = @ + 1]
    /\ UNCHANGED <<slides, config, build, pc, idx, zip, outfile, result, error,
                   fsVars, loadVars, validateVars, cmdVars, captured, passVars,
                   jobVars>>

\* close standard output and standard error without exiting
ChildClose ==
    /\ Running(child)
    /\ Op(child).op = "close"
    /\ child' = [child EXCEPT !.stdout.open = FALSE, !.stderr.open = FALSE,
                              !.ip = @ + 1]
    /\ UNCHANGED <<slides, config, build, pc, idx, zip, outfile, result, error,
                   fsVars, loadVars, validateVars, cmdVars, captured, passVars,
                   jobVars>>

\* exit: every descriptor of the process is closed
ChildExit ==
    /\ Running(child)
    /\ Op(child).op = "exit"
    /\ child' = [child EXCEPT !.state = "exited", !.code = Op(child).code,
                              !.stdout.open = FALSE, !.stderr.open = FALSE]
    /\ UNCHANGED <<slides, config, build, pc, idx, zip, outfile, result, error,
                   fsVars, loadVars, validateVars, cmdVars, captured, passVars,
                   jobVars>>

\* write the presentation to the output path
ChildSave ==
    /\ Running(child)
    /\ Op(child).op = "save"
    /\ outfile' = TRUE
    /\ child' = [child EXCEPT !.ip = @ + 1]
    /\ UNCHANGED <<slides, config, build, pc, idx, zip, result, error,
                   fsVars, loadVars, validateVars, cmdVars, captured, passVars,
                   jobVars>>

(***************************************************************************)
(* Programs of the node process                                            *)
(***************************************************************************)
Read == [op |-> "read"]
Save == [op |-> "save"]
Out(text) == [op |-> "out", text |-> text]
ErrorOut(text) == [op |-> "err", text |-> text]
Close == [op |-> "close"]
Exit(code) == [op |-> "exit", code |-> code]
\* an operation that never completes
Hang == [op |-> "hang"]

\* {}   {"error":"x"}   {"error":1}   null   oops   and the empty text
EmptyObject == <<"{", "}">>
ErrorObject == <<"{", "\"", "e", "r", "r", "o", "r", "\"", ":", "\"", "x", "\"", "}">>
ErrorNumber == <<"{", "\"", "e", "r", "r", "o", "r", "\"", ":", "1", "}">>
JsonNull == <<"n", "u", "l", "l">>
Oops == <<"o", "o", "p", "s">>
Responses == {EmptyObject, ErrorObject, ErrorNumber, JsonNull, Oops, <<>>}

\* the text the process writes to standard error
Boom == <<"b", "o", "o", "m">>

\* the process answers: it reads the request, saves, responds and exits 0
Answers(text) == <<Read, Save, Out(text), Exit(0)>>
\* it reports on standard error and exits 1
Crashes == <<Read, ErrorOut(Boom), Exit(1)>>
\* it reports on standard output and exits 1
Refuses == <<Read, Out(ErrorObject), Exit(1)>>
\* it exits at once, with the request unread
ExitsEarly == <<Exit(0)>>
\* it never reads its input
NeverReads == <<Hang>>
\* it reads its input and then neither writes nor exits
NeverWrites == <<Read, Hang>>
\* it writes more to standard error than the pipe holds, then responds
FillsStderr ==
    <<Read>> \o [k \in 1..(PipeCap + 1) |-> ErrorOut(Boom)]
    \o <<Out(EmptyObject), Exit(0)>>
\* it responds, closes its output streams and never exits
NeverExits == <<Read, Out(EmptyObject), Close, Hang>>

Programs ==
    {Answers(t) : t \in Responses}
    \cup {Crashes, Refuses, ExitsEarly, NeverReads, NeverWrites, FillsStderr,
          NeverExits}

Pipe == [buf |-> <<>>, open |-> TRUE]

\* the process before it is spawned
Unspawned(spawnable, prog) ==
    [state |-> "unspawned", spawnable |-> spawnable, prog |-> prog, ip |-> 1,
     code |-> 0, stdin |-> [n |-> 0, open |-> TRUE], stdout |-> Pipe,
     stderr |-> Pipe]

InitSidecar ==
    /\ JobsIdle
    /\ child \in {Unspawned(s, p) : s \in BOOLEAN, p \in Programs}
    /\ captured \in {[stdout |-> <<>>, stderr |-> <<>>, to_write |-> n] :
                        n \in 1..MaxRequest}
    /\ pc = "sidecar"
    /\ slides = <<>>
    /\ config = [width |-> U32(0, 1280), height |-> U32(0, 720)]
    /\ build = "release"
    /\ idx = 0
    /\ zip = <<>>
    /\ outfile = FALSE
    /\ result = "none"
    /\ svg_output = NoDir
    /\ svg_final = NoDir
    /\ notes_dir = NoDir
    /\ entries = <<>>
    /\ applied = <<>>
    /\ doc = <<>>
    /\ verdict = NoVerdict
    /\ error = NoError
    /\ request = NoRequest
    /\ response = NoResponse
    /\ calls = <<>>
    /\ pass_in = NoPass
    /\ pass_out = NoPass

\* the steps of export_async that wait for the process
SidecarStep ==
    SidecarSpawn \/ SidecarWrite \/ SidecarReadStdout \/ SidecarReadStderr
    \/ SidecarWait

ChildStep == ChildRead \/ ChildWrite \/ ChildClose \/ ChildExit \/ ChildSave

NextSidecar == SidecarStep \/ SidecarIoError \/ ChildStep

\* export_async is polled whenever it can proceed, and the process runs its
\* program whenever it can; the I/O errors of the operating system need not
\* occur
SpecSidecar ==
    InitSidecar /\ [][NextSidecar]_vars /\ WF_vars(SidecarStep) /\ WF_vars(ChildStep)

(***************************************************************************)
(* cmd_export_pptx                                                         *)
(***************************************************************************)
\* request.backend.as_deref().unwrap_or("pptxgen")
backend_name(req) == IF req.backend = "none" THEN "pptxgen" ELSE req.backend

\* mutant: the empty slide list is handed to the backend
slides_is_empty_Never(list) == FALSE

\* slides.is_empty()
slides_is_empty(list) == list = <<>>

\* an ExportPptxResponse with success: false; the message is the fixed part
\* of its text, named by the branch that builds it, and the error inserted
\* into it; slide_count is -1 for None
Failure(label, cause, slide_count) ==
    [success |-> FALSE, output_path |-> FALSE,
     error |-> [label |-> label, cause |-> cause], slide_count |-> slide_count]

\* mutant: a failed load is answered like a finished export
load_failed_Ignored(cause) ==
    [success |-> TRUE, output_path |-> TRUE,
     error |-> [label |-> "none", cause |-> NoError], slide_count |-> -1]

\* the response to Err(e) of load_slides
load_failed(cause) == Failure("load_failed", cause, -1)

\* the response to Ok(_) of the backend
Exported(slide_count) ==
    [success |-> TRUE, output_path |-> TRUE,
     error |-> [label |-> "none", cause |-> NoError], slide_count |-> slide_count]

\* the project_path.exists() check, the output path, the configuration, and
\* the call of load_slides
CmdBegin ==
    /\ pc = "cmd"
    /\ IF ~request.project_exists
       THEN /\ response' = Failure("project_missing", NoError, -1)
            /\ pc' = "responded"
            /\ UNCHANGED calls
       ELSE /\ calls' = Append(calls, "load_slides")
            /\ pc' = "load"
            /\ UNCHANGED response
    /\ UNCHANGED <<slides, config, build, idx, zip, outfile, result, error, fsVars,
                   loadVars, validateVars, request, sidecarVars, passVars, jobVars>>

\* the match on the result of load_slides, the is_empty check and the
\* choice of the backend
CmdLoaded ==
    /\ pc = "loaded"
    /\ IF result = "Err"
       THEN /\ response' = load_failed(error)
            /\ pc' = "responded"
            /\ UNCHANGED <<calls, result>>
       ELSE IF slides_is_empty(slides)
       THEN /\ response' = Failure("no_slides", NoError, 0)
            /\ pc' = "responded"
            /\ UNCHANGED <<calls, result>>
       ELSE IF backend_name(request) = "pptxgen"
       THEN IF ~is_available(child)
            THEN /\ response' = Failure("backend_unavailable", NoError, Len(slides))
                 /\ calls' = Append(calls, "is_available")
                 /\ pc' = "responded"
                 /\ UNCHANGED result
            ELSE /\ calls' = calls \o <<"is_available", "PptxGenSidecar::export">>
                 /\ result' = "none"
                 /\ pc' = "sidecar"
                 /\ UNCHANGED response
       ELSE IF backend_name(request) = "native"
       THEN /\ calls' = Append(calls, "NativeOoxml::export")
            /\ result' = "none"
            /\ pc' = "export"
            /\ UNCHANGED response
       ELSE /\ response' = Failure("unknown_backend", NoError, Len(slides))
            /\ pc' = "responded"
            /\ UNCHANGED <<calls, result>>
    /\ UNCHANGED <<slides, config, build, idx, zip, outfile, error, fsVars,
                   loadVars, validateVars, request, sidecarVars, passVars, jobVars>>

\* the match on the result of the backend
CmdRespond ==
    /\ pc \in {"done", "sidecar_done"}
    /\ result \in {"Ok", "Err"}
    /\ response' = IF result = "Ok" THEN Exported(Len(slides))
                   ELSE Failure("export_failed", error, Len(slides))
    /\ pc' = "responded"
    /\ UNCHANGED <<slides, config, build, idx, zip, outfile, result, error, fsVars,
                   loadVars, validateVars, request, calls, sidecarVars, passVars,
                   jobVars>>

(***************************************************************************)
(* Inputs of cmd_export_pptx                                               *)
(***************************************************************************)
\* "<svg>" and "<mask>": an element that is never closed
OpenSvg == <<"<", "s", "v", "g", ">">>
OpenMask == <<"<", "m", "a", "s", "k", ">">>

CmdDocs == {CleanSvg, MaskSvg, OpenSvg, OpenMask}

\* "a.svg", "B.svg", "c.txt"
CmdDirNames ==
    {<<97, 46, 115, 118, 103>>, <<66, 46, 115, 118, 103>>, <<99, 46, 116, 120, 116>>}

CmdSvgDirs ==
    {NoDir} \cup
    UNION {{DirOf({File(n, t[n]) : n \in names}) : t \in [names -> CmdDocs]} :
              names \in {S \in SUBSET CmdDirNames : Cardinality(S) <= MaxFiles}}

Requests ==
    {[project_exists |-> e, backend |-> b] :
        e \in BOOLEAN, b \in {"none", "pptxgen", "native", "other"}}

InitCmd ==
    /\ JobsIdle
    /\ request \in Requests
    /\ svg_final \in CmdSvgDirs
    /\ child \in {Unspawned(s, p) :
                     s \in BOOLEAN, p \in {Answers(EmptyObject), Crashes, NeverExits}}
    /\ captured = [stdout |-> <<>>, stderr |-> <<>>, to_write |-> 1]
    /\ pc = "cmd"
    /\ response = NoResponse
    /\ calls = <<>>
    /\ slides = <<>>
    /\ config \in LoadConfigs
    /\ build = "release"
    /\ idx = 0
    /\ zip = <<>>
    /\ outfile = FALSE
    /\ result = "none"
    /\ svg_output = NoDir
    /\ notes_dir = NoDir
    /\ entries = <<>>
    /\ applied = <<>>
    /\ doc = <<>>
    /\ verdict = NoVerdict
    /\ error = NoError
    /\ pass_in = NoPass
    /\ pass_out = NoPass

NextCmd ==
    \/ CmdBegin \/ CmdLoaded \/ CmdRespond
    \/ LoadBegin \/ LoadSlide \/ LoadReturn \/ LoadIoError
    \/ ExportBegin \/ ExportSlide \/ ExportFinish \/ ExportIoError
    \/ SidecarStep \/ SidecarIoError \/ ChildStep

SpecCmd == InitCmd /\ [][NextCmd]_vars

(***************************************************************************)
(* Claims about cmd_export_pptx                                            *)
(***************************************************************************)
Responded == pc = "responded"

\* the calls of a backend's export made so far
ExportCalls ==
    {k \in DOMAIN calls : calls[k] \in {"PptxGenSidecar::export", "NativeOoxml::export"}}

\* nothing has been written and no process has been started
NoArchive ==
    /\ ExportCalls = {}
    /\ ~outfile
    /\ zip = <<>>
    /\ child.state = "unspawned"

\* the names in svg_final that load_slides takes for slides
SvgEntries == {n \in FileNames(svg_final) : IsSvgEntry(n)}

\* C11: when svg_final is missing or holds no SVG file, cmd_export_pptx never
\* invokes a backend's export and never creates the output file, and the
\* response it returns is a failure.
C11_NoInputAborts ==
    (~svg_final.exists \/ SvgEntries = {}) =>
        /\ NoArchive
        /\ pc \notin {"export", "export_slides", "done", "sidecar", "sidecar_done"}
        /\ Responded => ~response.success /\ ~response.output_path

\* svg_final exists and holds a file, but none with the svg extension, and
\* the command has answered that it found no slide
C11_Witness ==
    /\ Responded
    /\ svg_final.exists
    /\ svg_final.files # {}
    /\ SvgEntries = {}
    /\ response.error.label = "no_slides"
    /\ response.slide_count = 0

\* the text of the file a loaded slide was read from
SourceOf(i) == FileText(svg_final, entries[i])

\* C12: a slide whose SVG is not well-formed is never recorded by load_slides,
\* neither as vector nor as raster content, and a project that holds such a
\* slide is answered with a failure and leaves no archive.
C12_MalformedSlideFails ==
    /\ \A i \in DOMAIN slides : WellFormed(SourceOf(i))
    /\ (\E n \in SvgEntries : ~WellFormed(FileText(svg_final, n))) =>
           /\ ~outfile
           /\ Responded => ~response.success

RenderErrors == {"SvgParse", "PngConversion"}

\* C13: once svg_to_png has failed for a slide, load_slides has returned the
\* error and no slide list, no backend is invoked, no output file is created,
\* and the response is the load failure carrying that error.
C13_RenderFailureIsFatal ==
    error.variant \in RenderErrors =>
        /\ result = "Err"
        /\ slides = <<>>
        /\ NoArchive
        /\ pc \in {"loaded", "responded"}
        /\ Responded =>
              /\ ~response.success
              /\ ~response.output_path
              /\ response.error = [label |-> "load_failed", cause |-> error]
              /\ response.slide_count = -1

\* the second slide could not be rasterized, after the first had been loaded,
\* and the command has answered
C13_Witness ==
    /\ Responded
    /\ error.variant = "PngConversion"
    /\ idx = 1
    /\ Len(entries) = 2

\* C14: when the response reports the backend as unavailable, no slide has
\* been loaded or rasterized and no backend export has been invoked.
C14_UnavailableBeforeWork ==
    (Responded /\ response.error.label = "backend_unavailable") =>
        /\ slides = <<>>
        /\ \A k \in DOMAIN calls : calls[k] # "load_slides"
        /\ NoArchive

(***************************************************************************)
(* Claims about PptxGenSidecar                                             *)
(***************************************************************************)
\* C15: every call of PptxGenSidecar::export returns, whatever the node
\* process does.
C15_ExportReturns == <>(pc = "sidecar_done")

\* export_async has waited for the process and decided on its response
Decided ==
    /\ pc = "sidecar_done"
    /\ error.label \in {"", "sidecar_failed", "parse_failed", "sidecar_error"}

\* the text is a JSON object that has no "error" member
IsCleanObject(text) ==
    /\ from_str(text).ok
    /\ from_str(text).value.type = "object"
    /\ ~Value_get(from_str(text).value, <<"e", "r", "r", "o", "r">>).some

\* what the process said: its two output streams
Diagnostics == {captured.stdout, captured.stderr} \ {<<>>}

\* C16: once the process has been waited for, export succeeds exactly when
\* the process exited with status zero and its response is a JSON object
\* without an error member, and a failure carries what the process wrote.
C16_SuccessIffCleanResponse ==
    Decided =>
        /\ result = "Ok" <=> (child.code = 0 /\ IsCleanObject(captured.stdout))
        /\ (result = "Err" /\ Diagnostics # {}) =>
              \E k \in DOMAIN error.detail :
                 \/ error.detail[k] \in Diagnostics
                 \/ Contains(captured.stdout, error.detail[k])

(***************************************************************************)
(* Attributes of a start tag (quick_xml::events::attributes::Attributes)   *)
(***************************************************************************)
\* the first position >= i that holds no space
RECURSIVE skip_spaces(_, _)
skip_spaces(text, i) ==
    IF i <= Len(text) /\ text[i] = Space THEN skip_spaces(text, i + 1) ELSE i

\* the attributes from position i on, appended to attrs: each is
\* key="value" or key='value'; anything else is an AttrError
RECURSIVE scan_attributes(_, _, _)
scan_attributes(content, i0, attrs) ==
    LET i == skip_spaces(content, i0)
        eq == IndexFrom(content, "=", i)
        close == IndexFrom(content, content[eq + 1], eq + 2)
        key == SubSeq(content, i, eq - 1)
    IN  IF i > Len(content) THEN [ok |-> TRUE, attrs |-> attrs]
        ELSE IF eq = 0 \/ eq = i \/ eq = Len(content) THEN [ok |-> FALSE, attrs |-> attrs]
        ELSE IF content[eq + 1] \notin {"\"", "'"} \/ close = 0
        THEN [ok |-> FALSE, attrs |-> attrs]
        ELSE IF \E k \in DOMAIN attrs : attrs[k].key = key
        THEN \* a duplicated attribute name is an AttrError
             [ok |-> FALSE, attrs |-> attrs]
        ELSE scan_attributes(content, close + 1,
                             Append(attrs, [key |-> key,
                                            value |-> SubSeq(content, eq + 2, close - 1)]))

\* elem.attributes(), after the name of the element
attributes(content) == scan_attributes(content, Len(TagName(content)) + 1, <<>>)

\* BytesStart::push_attribute: a space, the key, and the value between
\* double quotes
push_attribute(content, key, value) ==
    content \o <<Space>> \o key \o <<"=", "\"">> \o value \o <<"\"">>

(***************************************************************************)
(* Numbers: an f32 is modelled as a whole number of thousandths, which is  *)
(* exact for the decimal texts used as inputs                              *)
(***************************************************************************)
Scale == 1000

DigitChars == <<"0", "1", "2", "3", "4", "5", "6", "7", "8", "9">>
IsDigit(c) == \E d \in DOMAIN DigitChars : DigitChars[d] = c
DigitValue(c) == (CHOOSE d \in DOMAIN DigitChars : DigitChars[d] = c) - 1

\* the number written by a text of digits
RECURSIVE ToNat(_)
ToNat(digits) ==
    IF digits = <<>> THEN 0
    ELSE ToNat(SubSeq(digits, 1, Len(digits) - 1)) * 10 + DigitValue(digits[Len(digits)])

\* the digits of a natural number
RECURSIVE NatText(_)
NatText(n) ==
    IF n < 10 THEN <<DigitChars[n + 1]>>
    ELSE NatText(n \div 10) \o <<DigitChars[(n % 10) + 1]>>

EndsWith(text, suffix) ==
    Len(text) >= Len(suffix)
    /\ SubSeq(text, Len(text) - Len(suffix) + 1, Len(text)) = suffix

\* str::trim_end_matches: the suffix is removed as often as it occurs
RECURSIVE trim_end_matches(_, _)
trim_end_matches(text, suffix) ==
    IF EndsWith(text, suffix)
    THEN trim_end_matches(SubSeq(text, 1, Len(text) - Len(suffix)), suffix)
    ELSE text

\* str::trim, for spaces
RECURSIVE trim(_)
trim(text) ==
    IF text # <<>> /\ Head(text) = Space THEN trim(Tail(text))
    ELSE IF text # <<>> /\ text[Len(text)] = Space
    THEN trim(SubSeq(text, 1, Len(text) - 1))
    ELSE text

\* str::parse::<f32> for a sign, digits and at most three decimals, in
\* thousandths; None for the texts that are no number
parse_f32(text) ==
    LET neg == text # <<>> /\ Head(text) = "-"
        body == IF text # <<>> /\ Head(text) \in {"-", "+"} THEN Tail(text) ELSE text
        dot == IndexFrom(body, ".", 1)
        int == IF dot = 0 THEN body ELSE SubSeq(body, 1, dot - 1)
        frac == IF dot = 0 THEN <<>> ELSE SubSeq(body, dot + 1, Len(body))
        frac3 == SubSeq(frac \o <<"0", "0", "0">>, 1, 3)
        magnitude == ToNat(int) * Scale + ToNat(frac3)
    IN  IF /\ Len(int) + Len(frac) > 0
           /\ \A k \in DOMAIN int : IsDigit(int[k])
           /\ \A k \in DOMAIN frac : IsDigit(frac[k])
        THEN [some |-> TRUE, v |-> IF neg THEN -magnitude ELSE magnitude]
        ELSE [some |-> FALSE, v |-> 0]

\* parse_float: the units are cut off, and a text that is no number is 0.0
parse_float(val) ==
    LET a == trim_end_matches(trim(val), <<"p", "x">>)
        b == trim_end_matches(a, <<"p", "t">>)
        c == trim_end_matches(b, <<"e", "m">>)
        d == trim_end_matches(c, <<"%">>)
        e == trim_end_matches(d, <<"r", "e", "m">>)
    IN  parse_f32(e).v

\* format!("{:.2}", v): rounded to hundredths (no input lies halfway between
\* two hundredths)
fmt2(v) ==
    LET a == IF v < 0 THEN -v ELSE v
        h == (a + 5) \div 10
    IN  (IF v < 0 THEN <<"-">> ELSE <<>>)
        \o NatText(h \div 100) \o <<".">>
        \o <<DigitChars[((h \div 10) % 10) + 1], DigitChars[(h % 10) + 1]>>

\* the first position >= i where the word w stands, 0 when there is none
FindFrom(text, w, i) ==
    LET hits == {j \in i..(Len(text) - Len(w) + 1) : SubSeq(text, j, j + Len(w) - 1) = w}
    IN  IF hits = {} THEN 0 ELSE CHOOSE j \in hits : \A k \in hits : j <= k

\* str::replace(from, to): every occurrence, from left to right
RECURSIVE str_replace(_, _, _)
str_replace(text, from, to) ==
    CHOOSE r \in
        {IF hit = 0 THEN text
         ELSE SubSeq(text, 1, hit - 1) \o to
              \o str_replace(SubSeq(text, hit + Len(from), Len(text)), from, to) :
            hit \in {FindFrom(text, from, 1)}} : TRUE

\* the least and the greatest element of a set of numbers
SetMin(S) == CHOOSE a \in S : \A b \in S : a <= b
SetMax(S) == CHOOSE a \in S : \A b \in S : b <= a

\* f32::min
Min(a, b) == IF a <= b THEN a ELSE b

(***************************************************************************)
(* rect_to_path                                                            *)
(***************************************************************************)
RectKeys ==
    {<<"x">>, <<"y">>, <<"w", "i", "d", "t", "h">>, <<"h", "e", "i", "g", "h", "t">>,
     <<"r", "x">>, <<"r", "y">>}

\* the attributes that are kept, in their order, pushed onto `content`
RECURSIVE push_others(_, _)
push_others(content, attrs) ==
    IF attrs = <<>> THEN content
    ELSE push_others(IF Head(attrs).key \in RectKeys THEN content
                     ELSE push_attribute(content, Head(attrs).key, Head(attrs).value),
                     Tail(attrs))

\* rect_to_rounded_path: the radii are cut to half the width and half the
\* height, and the path is formatted with two decimals, ".00" removed
rect_to_rounded_path(x, y, width, height, rx0, ry0) ==
    LET rx == Min(rx0, width \div 2)
        ry == Min(ry0, height \div 2)
        x1 == x + rx
        x2 == x + width - rx
        y1 == y + ry
        y2 == y + height - ry
        arc(px, py) ==
            <<" ", "A">> \o fmt2(rx) \o <<",">> \o fmt2(ry)
            \o <<" ", "0", " ", "0", " ", "1", " ">> \o fmt2(px) \o <<",">> \o fmt2(py)
    IN  str_replace(
            <<"M">> \o fmt2(x1) \o <<",">> \o fmt2(y)
            \o <<" ", "H">> \o fmt2(x2)
            \o arc(x + width, y1)
            \o <<" ", "V">> \o fmt2(y2)
            \o arc(x2, y + height)
            \o <<" ", "H">> \o fmt2(x1)
            \o arc(x, y2)
            \o <<" ", "V">> \o fmt2(y1)
            \o arc(x1, y)
            \o <<" ", "Z">>,
            <<".", "0", "0">>, <<>>)

\* convert_rect_to_path: Err for an attribute error, the element itself when
\* it has no radius or no size, otherwise the path element
convert_rect_to_path(content) ==
    LET parsed == attributes(content)
        attrs == parsed.attrs
        \* the last assignment wins; an absent attribute leaves 0.0
        value(key) ==
            LET hits == {k \in DOMAIN attrs : attrs[k].key = key}
            IN  IF hits = {} THEN 0
                ELSE parse_float(attrs[CHOOSE k \in hits : \A j \in hits : j <= k].value)
        x == value(<<"x">>)
        y == value(<<"y">>)
        width == value(<<"w", "i", "d", "t", "h">>)
        height == value(<<"h", "e", "i", "g", "h", "t">>)
        rx0 == value(<<"r", "x">>)
        ry0 == value(<<"r", "y">>)
        rx == IF rx0 = 0 /\ ry0 > 0 THEN ry0 ELSE rx0
        ry == IF ~(rx0 = 0 /\ ry0 > 0) /\ ry0 = 0 /\ rx0 > 0 THEN rx0 ELSE ry0
    IN  IF ~parsed.ok THEN [ok |-> FALSE, content |-> content]
        ELSE IF rx <= 0 /\ ry <= 0 THEN [ok |-> TRUE, content |-> content]
        ELSE IF width <= 0 \/ height <= 0 THEN [ok |-> TRUE, content |-> content]
        ELSE [ok |-> TRUE,
              content |->
                  push_others(
                      push_attribute(<<"p", "a", "t", "h">>, <<"d">>,
                                     rect_to_rounded_path(x, y, width, height, rx, ry)),
                      attrs)]

IsRect(event) == TagName(event.content) = <<"r", "e", "c", "t">>

\* Writer::write_event
write_event(event) ==
    IF event.kind = "Start" THEN <<"<">> \o event.content \o <<">">>
    ELSE IF event.kind = "End" THEN <<"<", "/">> \o event.content \o <<">">>
    ELSE IF event.kind = "Empty" THEN <<"<">> \o event.content \o <<"/", ">">>
    ELSE event.content

\* the position after the first </rect> at or after k (the inner loop), or
\* after the last event
RECURSIVE skip_to_end(_, _)
skip_to_end(events, k) ==
    IF k > Len(events) THEN k
    ELSE IF events[k].kind = "End" /\ IsRect(events[k]) THEN k + 1
    ELSE skip_to_end(events, k + 1)

\* the outer loop of rect_to_path from event k on: what it writes
RECURSIVE rewrite_rects(_, _)
rewrite_rects(events, k) ==
    IF k > Len(events) THEN <<>>
    ELSE LET e == events[k]
         IN  IF e.kind \in {"Empty", "Start"} /\ IsRect(e)
             THEN CHOOSE r \in
                 {IF new_elem.ok
                  THEN \* written as an empty element in both forms; after a
                       \* start tag everything up to </rect> is skipped
                       write_event([kind |-> "Empty", content |-> new_elem.content])
                       \o rewrite_rects(events, IF e.kind = "Start"
                                                THEN skip_to_end(events, k + 1)
                                                ELSE k + 1)
                  ELSE write_event(e) \o rewrite_rects(events, k + 1) :
                     new_elem \in {convert_rect_to_path(e.content)}} : TRUE
             ELSE write_event(e) \o rewrite_rects(events, k + 1)

\* rect_to_path: Err when the reader reports an error, otherwise the
\* rewritten text
rect_to_path(svg_content) ==
    CHOOSE r \in
        {IF OpenAfter(events, <<>>).ok
         THEN [kind |-> "rect_to_path", ok |-> TRUE, text |-> rewrite_rects(events, 1)]
         ELSE [kind |-> "rect_to_path", ok |-> FALSE, text |-> <<>>] :
            events \in {read_events(svg_content, 1)}} : TRUE

RectToPath ==
    /\ pc = "pass"
    /\ pass_in.kind = "rect_to_path"
    /\ pass_out' = rect_to_path(pass_in.doc)
    /\ pc' = "passed"
    /\ UNCHANGED <<slides, config, build, idx, zip, outfile, result, error, fsVars,
                   loadVars, validateVars, cmdVars, sidecarVars, pass_in, jobVars>>

(***************************************************************************)
(* embed_images                                                            *)
(***************************************************************************)
Base64Chars ==
    <<"A", "B", "C", "D", "E", "F", "G", "H", "I", "J", "K", "L", "M", "N", "O", "P",
      "Q", "R", "S", "T", "U", "V", "W", "X", "Y", "Z", "a", "b", "c", "d", "e", "f",
      "g", "h", "i", "j", "k", "l", "m", "n", "o", "p", "q", "r", "s", "t", "u", "v",
      "w", "x", "y", "z", "0", "1", "2", "3", "4", "5", "6", "7", "8", "9", "+", "/">>

\* general_purpose::STANDARD.encode: three bytes give four characters, the
\* last group is padded with "="
RECURSIVE base64_encode(_)
base64_encode(bytes) ==
    IF bytes = <<>> THEN <<>>
    ELSE LET n == IF Len(bytes) >= 3 THEN 3 ELSE Len(bytes)
             b1 == bytes[1]
             b2 == IF n >= 2 THEN bytes[2] ELSE 0
             b3 == IF n >= 3 THEN bytes[3] ELSE 0
             c(k) == Base64Chars[k + 1]
         IN  <<c(b1 \div 4), c((b1 % 4) * 16 + b2 \div 16)>>
             \o (IF n >= 2 THEN <<c((b2 % 16) * 4 + b3 \div 64)>> ELSE <<"=">>)
             \o (IF n >= 3 THEN <<c(b3 % 64)>> ELSE <<"=">>)
             \o base64_encode(SubSeq(bytes, n + 1, Len(bytes)))

UpperChars ==
    <<"A", "B", "C", "D", "E", "F", "G", "H", "I", "J", "K", "L", "M", "N", "O", "P",
      "Q", "R", "S", "T", "U", "V", "W", "X", "Y", "Z">>

\* str::to_lowercase, for ASCII
to_lowercase(text) ==
    [k \in DOMAIN text |->
        IF \E u \in DOMAIN UpperChars : UpperChars[u] = text[k]
        THEN Base64Chars[26 + CHOOSE u \in DOMAIN UpperChars : UpperChars[u] = text[k]]
        ELSE text[k]]

\* get_mime_type: by what follows the last "." of the name
get_mime_type(filename) ==
    LET dots == {i \in DOMAIN filename : filename[i] = "."}
        ext == to_lowercase(IF dots = {} THEN filename
                            ELSE SubSeq(filename, SetMax(dots) + 1, Len(filename)))
    IN  IF ext = <<"p", "n", "g">> THEN <<"i", "m", "a", "g", "e", "/", "p", "n", "g">>
        ELSE IF ext \in {<<"j", "p", "g">>, <<"j", "p", "e", "g">>}
        THEN <<"i", "m", "a", "g", "e", "/", "j", "p", "e", "g">>
        ELSE IF ext = <<"g", "i", "f">> THEN <<"i", "m", "a", "g", "e", "/", "g", "i", "f">>
        ELSE IF ext = <<"w", "e", "b", "p">>
        THEN <<"i", "m", "a", "g", "e", "/", "w", "e", "b", "p">>
        ELSE IF ext = <<"s", "v", "g">>
        THEN <<"i", "m", "a", "g", "e", "/", "s", "v", "g", "+", "x", "m", "l">>
        ELSE <<"a", "p", "p", "l", "i", "c", "a", "t", "i", "o", "n", "/", "o", "c",
               "t", "e", "t", "-", "s", "t", "r", "e", "a", "m">>

DataPrefix == <<"d", "a", "t", "a", ":">>

StartsWith(text, prefix) ==
    Len(text) >= Len(prefix) /\ SubSeq(text, 1, Len(prefix)) = prefix

\* embed_image_file: the files of the project directory are a set of
\* [path, bytes]; Err when std::fs::read fails (the paths hold no entity)
embed_image_file(img_path, files) ==
    LET found == {f \in files : f.path = img_path}
    IN  IF found = {} THEN [ok |-> FALSE, uri |-> <<>>]
        ELSE [ok |-> TRUE,
              uri |-> DataPrefix \o get_mime_type(img_path)
                      \o <<";", "b", "a", "s", "e", "6", "4", ",">>
                      \o base64_encode((CHOOSE f \in found : TRUE).bytes)]

\* update_href_attribute: the element rebuilt from its name and all its
\* attributes, with the value of href_key replaced
RECURSIVE push_updated(_, _, _, _)
push_updated(content, attrs, href_key, new_value) ==
    IF attrs = <<>> THEN content
    ELSE push_updated(push_attribute(content, Head(attrs).key,
                                     IF Head(attrs).key = href_key THEN new_value
                                     ELSE Head(attrs).value),
                      Tail(attrs), href_key, new_value)

update_href_attribute(content, href_key, new_value) ==
    push_updated(TagName(content), attributes(content).attrs, href_key, new_value)

HrefKeys == {<<"h", "r", "e", "f">>, <<"x", "l", "i", "n", "k", ":", "h", "r", "e", "f">>}

\* the loop over the attributes of an image element, from attribute k on:
\* new_elem is what has been built so far; every update starts again from
\* the element as it was read
RECURSIVE embed_hrefs(_, _, _, _)
embed_hrefs(content, k, new_elem, files) ==
    LET attrs == attributes(content).attrs
    IN  IF k > Len(attrs) THEN new_elem
        ELSE CHOOSE r \in
            {IF /\ attrs[k].key \in HrefKeys
                /\ ~StartsWith(attrs[k].value, DataPrefix)
                /\ data_uri.ok
             THEN embed_hrefs(content, k + 1,
                              update_href_attribute(content, attrs[k].key, data_uri.uri),
                              files)
             ELSE embed_hrefs(content, k + 1, new_elem, files) :
                data_uri \in {embed_image_file(attrs[k].value, files)}} : TRUE

IsImage(event) == TagName(event.content) = <<"i", "m", "a", "g", "e">>

\* what embed_images writes for one event
embed_event(event, files) ==
    IF event.kind \in {"Empty", "Start"} /\ IsImage(event)
    THEN write_event([kind |-> event.kind,
                      content |-> embed_hrefs(event.content, 1, event.content, files)])
    ELSE write_event(event)

\* embed_images: Err when the reader reports an error
embed_images(svg_content, files) ==
    CHOOSE r \in
        {IF OpenAfter(events, <<>>).ok
         THEN [kind |-> "embed_images", ok |-> TRUE,
               text |-> Concat([k \in DOMAIN events |-> embed_event(events[k], files)])]
         ELSE [kind |-> "embed_images", ok |-> FALSE, text |-> <<>>] :
            events \in {read_events(svg_content, 1)}} : TRUE

\* embed_images(&svg, project_path)
EmbedImages ==
    /\ pc = "pass"
    /\ pass_in.kind = "embed_images"
    /\ pass_out' = embed_images(pass_in.doc, pass_in.files)
    /\ pc' = "passed"
    /\ UNCHANGED <<slides, config, build, idx, zip, outfile, result, error, fsVars,
                   loadVars, validateVars, cmdVars, sidecarVars, pass_in, jobVars>>

\* embed_images applied to its own output, with the same files
EmbedAgain ==
    /\ pc = "passed"
    /\ pass_out.kind = "embed_images"
    /\ pass_out.ok
    /\ pass_in' = [pass_in EXCEPT !.doc = pass_out.text]
    /\ pass_out' = embed_images(pass_out.text, pass_in.files)
    /\ pc' = "passed_again"
    /\ UNCHANGED <<slides, config, build, idx, zip, outfile, result, error, fsVars,
                   loadVars, validateVars, cmdVars, sidecarVars, jobVars>>

(***************************************************************************)
(* Inputs of rect_to_path                                                  *)
(***************************************************************************)
\* an attribute that is absent, or present with a text that denotes v
\* thousandths
Absent == [present |-> FALSE, text |-> <<>>, v |-> 0]
Given(text, v) == [present |-> TRUE, text |-> text, v |-> v]

\* name="text", after a space, when the attribute is present
AttrText(name, a) ==
    IF a.present THEN <<Space>> \o name \o <<"=", "\"">> \o a.text \o <<"\"">> ELSE <<>>

RectXs == {Absent, Given(<<"2", ".", "0", "0", "4">>, 2004), Given(<<"3">>, 3000)}
RectWidths ==
    {Given(<<"1", "0", "0">>, 100000), Given(<<"0">>, 0), Given(<<"-", "4">>, -4000),
     Given(<<"1", "0", "p", "x">>, 10000)}
RectHeights == {Given(<<"1", "0">>, 10000), Given(<<"1", "0", "0">>, 100000)}
RectRxs == {Absent, Given(<<"0">>, 0), Given(<<"2">>, 2000), Given(<<"4", "0">>, 40000)}
RectRys == {Absent, Given(<<"4">>, 4000), Given(<<"-", "5">>, -5000)}

\* "empty": <rect ../>   "pair": <rect ..></rect>
\* "child": <rect ..><title>t</title></rect>
RectForms == {"empty", "pair", "child"}

RectInputs ==
    [form : RectForms, x : RectXs, width : RectWidths, height : RectHeights,
     rx : RectRxs, ry : RectRys]

\* id="r" and fill="red", the attributes that are no geometry
IdAttr == [key |-> <<"i", "d">>, value |-> <<"r">>]
FillAttr == [key |-> <<"f", "i", "l", "l">>, value |-> <<"r", "e", "d">>]

\* <svg><rect id="r" x width height rx fill="red" ry ..></svg>
RectDocText(r) ==
    LET content ==
            <<"r", "e", "c", "t">>
            \o push_attribute(<<>>, IdAttr.key, IdAttr.value)
            \o AttrText(<<"x">>, r.x)
            \o AttrText(<<"w", "i", "d", "t", "h">>, r.width)
            \o AttrText(<<"h", "e", "i", "g", "h", "t">>, r.height)
            \o AttrText(<<"r", "x">>, r.rx)
            \o push_attribute(<<>>, FillAttr.key, FillAttr.value)
            \o AttrText(<<"r", "y">>, r.ry)
        title == <<"<", "t", "i", "t", "l", "e", ">", "t", "<", "/", "t", "i", "t",
                   "l", "e", ">">>
        end == <<"<", "/", "r", "e", "c", "t", ">">>
    IN  <<"<", "s", "v", "g", ">">>
        \o (IF r.form = "empty" THEN <<"<">> \o content \o <<"/", ">">>
            ELSE IF r.form = "pair" THEN <<"<">> \o content \o <<">">> \o end
            ELSE <<"<">> \o content \o <<">">> \o title \o end)
        \o <<"<", "/", "s", "v", "g", ">">>

InitRect ==
    /\ JobsIdle
    /\ pass_in \in {[kind |-> "rect_to_path", doc |-> RectDocText(r), rect |-> r] :
                      r \in RectInputs}
    /\ pass_out = NoPass
    /\ pc = "pass"
    /\ slides = <<>>
    /\ config = [width |-> U32(0, 1280), height |-> U32(0, 720)]
    /\ build = "release"
    /\ idx = 0
    /\ zip = <<>>
    /\ outfile = FALSE
    /\ result = "none"
    /\ svg_output = NoDir
    /\ svg_final = NoDir
    /\ notes_dir = NoDir
    /\ entries = <<>>
    /\ applied = <<>>
    /\ doc = <<>>
    /\ verdict = NoVerdict
    /\ error = NoError
    /\ request = NoRequest
    /\ response = NoResponse
    /\ calls = <<>>
    /\ child = NoChild
    /\ captured = NoCapture

NextRect == RectToPath

SpecRect == InitRect /\ [][NextRect]_vars

(***************************************************************************)
(* Claims about rect_to_path                                               *)
(***************************************************************************)
RectPassed == pc = "passed" /\ pass_out.kind = "rect_to_path"

\* the element written in the place of the rect: the event after <svg>
OutElement == read_events(pass_out.text, 1)[2]
OutAttrs == attributes(OutElement.content).attrs

\* the rect of the input has no radius, or no size
PassesThrough(r) == (r.rx.v = 0 /\ r.ry.v = 0) \/ r.width.v <= 0 \/ r.height.v <= 0

\* the rect of the input has a size and a positive radius
IsRounded(r) ==
    /\ r.width.v > 0 /\ r.height.v > 0
    /\ r.rx.v >= 0 /\ r.ry.v >= 0
    /\ r.rx.v > 0 \/ r.ry.v > 0

\* C17: a rect without radius (rx and ry zero or absent) or without size
\* (width or height not positive) is written back as it was read, in every
\* form, with its children and its end tag, and so is the rest of the text.
C17_PlainRectUnchanged ==
    (RectPassed /\ PassesThrough(pass_in.rect)) =>
        pass_out.ok /\ pass_out.text = pass_in.doc

PathLetters == {"M", "H", "V", "A", "Z"}

\* the letters and numbers of a path, in order; a number is in thousandths
path_items(d) ==
    LET breaks == {" ", ","} \cup PathLetters
        starts == {i \in DOMAIN d :
                      \/ d[i] \in PathLetters
                      \/ d[i] \notin breaks /\ (i = 1 \/ d[i - 1] \in breaks)}
        stop(i) == LET after == {j \in (i + 1)..Len(d) : d[j] \in breaks}
                   IN  IF after = {} THEN Len(d) ELSE SetMin(after) - 1
        at(k) == CHOOSE i \in starts : Cardinality({j \in starts : j < i}) = k - 1
    IN  [k \in 1..Cardinality(starts) |->
            IF d[at(k)] \in PathLetters THEN [cmd |-> d[at(k)], v |-> 0]
            ELSE [cmd |-> "", v |-> parse_f32(SubSeq(d, at(k), stop(at(k)))).v]]

\* the commands of a path: the letter and the numbers that follow it
PathCommands(d) ==
    LET items == path_items(d)
        letters == {k \in DOMAIN items : items[k].cmd # ""}
        last(k) == IF \E j \in letters : j > k
                   THEN (CHOOSE j \in letters : j > k /\ \A m \in letters : m > k => j <= m) - 1
                   ELSE Len(items)
    IN  [k \in letters |->
            [cmd |-> items[k].cmd,
             args |-> [a \in 1..(last(k) - k) |-> items[k + a].v]]]

\* the x and the y coordinates a path names: of its M, H, V and A commands
PathXs(d) ==
    LET c == PathCommands(d)
    IN  {c[k].args[1] : k \in {j \in DOMAIN c : c[j].cmd \in {"M", "H"}}}
        \cup {c[k].args[6] : k \in {j \in DOMAIN c : c[j].cmd = "A"}}
PathYs(d) ==
    LET c == PathCommands(d)
    IN  {c[k].args[2] : k \in {j \in DOMAIN c : c[j].cmd = "M"}}
        \cup {c[k].args[1] : k \in {j \in DOMAIN c : c[j].cmd = "V"}}
        \cup {c[k].args[7] : k \in {j \in DOMAIN c : c[j].cmd = "A"}}

\* the radii of the arcs of a path
PathRadii(d) ==
    LET c == PathCommands(d)
    IN  UNION {{c[k].args[1], c[k].args[2]} : k \in {j \in DOMAIN c : c[j].cmd = "A"}}

\* the rect was replaced by a path element whose first attribute is d
Converted ==
    /\ RectPassed /\ pass_out.ok
    /\ OutElement.kind = "Empty"
    /\ TagName(OutElement.content) = <<"p", "a", "t", "h">>
    /\ OutAttrs # <<>> /\ OutAttrs[1].key = <<"d">>

\* C18: a rect with a size and a positive radius is replaced by a path that
\* is closed, whose extent is x .. x+width by y .. y+height, and that carries
\* the other attributes of the rect, unchanged and in their order.
C18_PathCoversRect ==
    (RectPassed /\ IsRounded(pass_in.rect)) =>
        /\ Converted
        /\ LET d == OutAttrs[1].value
               r == pass_in.rect
           IN  /\ d[Len(d)] = "Z"
               /\ SetMin(PathXs(d)) = r.x.v
               /\ SetMax(PathXs(d)) = r.x.v + r.width.v
               /\ SetMin(PathYs(d)) = 0
               /\ SetMax(PathYs(d)) = r.height.v
        /\ Tail(OutAttrs) = <<IdAttr, FillAttr>>

\* C19: in a converted rect no arc radius is larger than half the shorter
\* side of the rect.
C19_RadiusClamped ==
    Converted =>
        \A radius \in PathRadii(OutAttrs[1].value) :
            2 * radius <= Min(pass_in.rect.width.v, pass_in.rect.height.v)

(***************************************************************************)
(* Inputs of embed_images                                                  *)
(***************************************************************************)
\* "a.png" (a file of the project), "b.png" (no such file), and
\* "data:image/png;base64,AQ=="
APng == <<"a", ".", "p", "n", "g">>
BPng == <<"b", ".", "p", "n", "g">>
DataUri ==
    DataPrefix \o <<"i", "m", "a", "g", "e", "/", "p", "n", "g", ";", "b", "a", "s",
                    "e", "6", "4", ",", "A", "Q", "=", "=">>

\* the values of an href attribute; the empty text stands for no attribute
HrefValues == {<<>>, APng, BPng, DataUri}

\* the project directory: empty, or holding a.png
ImageFiles == {{}, {[path |-> APng, bytes |-> <<137, 80>>]}}

\* <svg><image href=".." xlink:href=".." width="1"/></svg>, or the same
\* with <image ..></image>
ImageDocText(form, href, xlink) ==
    LET content ==
            <<"i", "m", "a", "g", "e">>
            \o (IF href = <<>> THEN <<>>
                ELSE push_attribute(<<>>, <<"h", "r", "e", "f">>, href))
            \o (IF xlink = <<>> THEN <<>>
                ELSE push_attribute(<<>>, <<"x", "l", "i", "n", "k", ":", "h", "r", "e",
                                           "f">>, xlink))
            \o push_attribute(<<>>, <<"w", "i", "d", "t", "h">>, <<"1">>)
    IN  <<"<", "s", "v", "g", ">">>
        \o (IF form = "empty" THEN <<"<">> \o content \o <<"/", ">">>
            ELSE <<"<">> \o content \o <<">", "<", "/", "i", "m", "a", "g", "e", ">">>)
        \o <<"<", "/", "s", "v", "g", ">">>

InitEmbed ==
    /\ JobsIdle
    /\ pass_in \in {[kind |-> "embed_images", doc |-> ImageDocText(form, href, xlink),
                     files |-> files] :
                      form \in {"empty", "pair"}, href \in HrefValues,
                      xlink \in HrefValues, files \in ImageFiles}
    /\ pass_out = NoPass
    /\ pc = "pass"
    /\ slides = <<>>
    /\ config = [width |-> U32(0, 1280), height |-> U32(0, 720)]
    /\ build = "release"
    /\ idx = 0
    /\ zip = <<>>
    /\ outfile = FALSE
    /\ result = "none"
    /\ svg_output = NoDir
    /\ svg_final = NoDir
    /\ notes_dir = NoDir
    /\ entries = <<>>
    /\ applied = <<>>
    /\ doc = <<>>
    /\ verdict = NoVerdict
    /\ error = NoError
    /\ request = NoRequest
    /\ response = NoResponse
    /\ calls = <<>>
    /\ child = NoChild
    /\ captured = NoCapture

NextEmbed == EmbedImages \/ EmbedAgain

SpecEmbed == InitEmbed /\ [][NextEmbed]_vars

(***************************************************************************)
(* Claims about embed_images                                               *)
(***************************************************************************)
\* the attributes of the image element of a text: of the event after <svg>
ImageAttrs(text) == attributes(read_events(text, 1)[2].content).attrs

\* C20: an attribute of an image whose value is a data: URI is written back
\* with the value it had, and embed_images applied to its own output, with
\* the same files, returns that output.
C20_DataUriKeptAndIdempotent ==
    /\ (pc = "passed" /\ pass_out.kind = "embed_images") =>
          /\ pass_out.ok
          /\ \A k \in DOMAIN ImageAttrs(pass_in.doc) :
                StartsWith(ImageAttrs(pass_in.doc)[k].value, DataPrefix) =>
                    ImageAttrs(pass_out.text)[k] = ImageAttrs(pass_in.doc)[k]
    /\ (pc = "passed_again" /\ pass_out.kind = "embed_images") =>
          pass_out.ok /\ pass_out.text = pass_in.doc

(***************************************************************************)
(* fix_image_aspect                                                        *)
(***************************************************************************)
\* the value of a Base64 character, -1 for any other character
Base64Value(c) ==
    IF \E k \in DOMAIN Base64Chars : Base64Chars[k] = c
    THEN (CHOOSE k \in DOMAIN Base64Chars : Base64Chars[k] = c) - 1
    ELSE -1

\* general_purpose::STANDARD.decode: groups of four characters, "=" only as
\* the padding of the last group; Err for anything else
RECURSIVE base64_decode(_)
base64_decode(text) ==
    IF text = <<>> THEN [ok |-> TRUE, bytes |-> <<>>]
    ELSE IF Len(text) < 4 THEN [ok |-> FALSE, bytes |-> <<>>]
    ELSE CHOOSE r \in
        {LET pad == IF Len(text) > 4 THEN 0
                    ELSE IF text[3] = "=" /\ text[4] = "=" THEN 2
                    ELSE IF text[4] = "=" THEN 1 ELSE 0
             v(k) == IF k > 4 - pad THEN 0 ELSE Base64Value(text[k])
             bytes == <<v(1) * 4 + v(2) \div 16,
                        (v(2) % 16) * 16 + v(3) \div 4,
                        (v(3) % 4) * 64 + v(4)>>
         IN  IF (\E k \in 1..(4 - pad) : Base64Value(text[k]) < 0) \/ ~rest.ok
             THEN [ok |-> FALSE, bytes |-> <<>>]
             ELSE [ok |-> TRUE, bytes |-> SubSeq(bytes, 1, 3 - pad) \o rest.bytes] :
            rest \in {base64_decode(SubSeq(text, 5, Len(text)))}} : TRUE

\* the bitmaps that image::load_from_memory can decode, each with the width
\* and the height it reports; any other bytes are no image
Bitmaps ==
    {[bytes |-> <<137, 80, 1>>, width |-> 100, height |-> 100],
     [bytes |-> <<137, 80, 2>>, width |-> 200, height |-> 100],
     [bytes |-> <<137, 80, 3>>, width |-> 100, height |-> 200],
     [bytes |-> <<137, 80, 4>>, width |-> 300, height |-> 10]}

NoDimensions == [some |-> FALSE, width |-> 0, height |-> 0]

load_from_memory(bytes) ==
    IF \E b \in Bitmaps : b.bytes = bytes
    THEN LET b == CHOOSE b \in Bitmaps : b.bytes = bytes
         IN  [some |-> TRUE, width |-> b.width, height |-> b.height]
    ELSE NoDimensions

\* get_image_dimensions_from_data_uri: exactly one comma, "base64" before
\* it, and after it the Base64 text of a bitmap
get_image_dimensions_from_data_uri(data_uri) ==
    LET commas == {i \in DOMAIN data_uri : data_uri[i] = ","}
        comma == SetMin(commas)
        img_data == base64_decode(SubSeq(data_uri, comma + 1, Len(data_uri)))
    IN  IF Cardinality(commas) # 1 THEN NoDimensions
        ELSE IF FindFrom(SubSeq(data_uri, 1, comma - 1),
                         <<"b", "a", "s", "e", "6", "4">>, 1) = 0
        THEN NoDimensions
        ELSE IF ~img_data.ok THEN NoDimensions
        ELSE load_from_memory(img_data.bytes)

\* get_image_dimensions: only data: URIs are resolved
get_image_dimensions(href) ==
    IF StartsWith(href, DataPrefix) THEN get_image_dimensions_from_data_uri(href)
    ELSE NoDimensions

\* the value of the last attribute whose key is one of keys, the empty text
\* when there is none
LastValue(attrs, keys) ==
    LET hits == {k \in DOMAIN attrs : attrs[k].key \in keys}
    IN  IF hits = {} THEN <<>> ELSE attrs[SetMax(hits)].value

\* a quotient of two whole numbers, d > 0, in thousandths
Ratio(n, d) == [n |-> n, d |-> d]

\* format!("{:.2}", v) for a quotient: rounded to hundredths (no input
\* gives a quotient halfway between two hundredths)
fmt2_ratio(q) ==
    LET a == IF q.n < 0 THEN -q.n ELSE q.n
        h == (2 * a + 10 * q.d) \div (20 * q.d)
    IN  (IF q.n < 0 THEN <<"-">> ELSE <<>>)
        \o NatText(h \div 100) \o <<".">>
        \o <<DigitChars[((h \div 10) % 10) + 1], DigitChars[(h % 10) + 1]>>

XKey == <<"x">>
YKey == <<"y">>
WidthKey == <<"w", "i", "d", "t", "h">>
HeightKey == <<"h", "e", "i", "g", "h", "t">>

\* the second loop of fix_image_element: every attribute in its place, with
\* x, y, width and height replaced when the element has them
RECURSIVE push_fixed(_, _, _)
push_fixed(content, attrs, new) ==
    IF attrs = <<>> THEN content
    ELSE LET key == Head(attrs).key
             value == IF key = XKey THEN fmt2_ratio(new.x)
                      ELSE IF key = YKey THEN fmt2_ratio(new.y)
                      ELSE IF key = WidthKey THEN fmt2_ratio(new.width)
                      ELSE IF key = HeightKey THEN fmt2_ratio(new.height)
                      ELSE Head(attrs).value
         IN  push_fixed(push_attribute(content, key, value), Tail(attrs), new)

\* the box with the ratio of the image inside the box x, y, width, height
\* (thousandths): the full width when the image is wider than the box, the
\* full height otherwise
fitted_box(x, y, width, height, img_width, img_height) ==
    IF img_width * height > width * img_height
    THEN [x |-> Ratio(x, 1),
          y |-> Ratio(2 * y * img_width + height * img_width - width * img_height,
                      2 * img_width),
          width |-> Ratio(width, 1),
          height |-> Ratio(width * img_height, img_width)]
    ELSE [x |-> Ratio(2 * x * img_height + width * img_height - height * img_width,
                      2 * img_height),
          y |-> Ratio(y, 1),
          width |-> Ratio(height * img_width, img_height),
          height |-> Ratio(height, 1)]

\* |img_ratio - box_ratio| < 0.01, for a box of positive height: that is
\* 100 * |diff| < img_height * height, written without the product by 100
ratios_match(width, height, img_width, img_height) ==
    LET diff == img_width * height - width * img_height
    IN  (IF diff < 0 THEN -diff ELSE diff) <= (img_height * height - 1) \div 100

\* fix_image_element: Err for an attribute error; the element itself when
\* there is nothing to fix
fix_image_element(content) ==
    CHOOSE r \in
        {LET attrs == a.attrs
             x == parse_f32(LastValue(attrs, {XKey})).v
             y == parse_f32(LastValue(attrs, {YKey})).v
             width == parse_f32(LastValue(attrs, {WidthKey})).v
             height == parse_f32(LastValue(attrs, {HeightKey})).v
             href == LastValue(attrs, HrefKeys)
             dimensions == get_image_dimensions(href)
         IN  IF ~a.ok THEN [ok |-> FALSE, content |-> content]
             ELSE IF href = <<>> \/ width <= 0 \/ height <= 0
             THEN [ok |-> TRUE, content |-> content]
             ELSE IF ~dimensions.some THEN [ok |-> TRUE, content |-> content]
             ELSE IF ratios_match(width, height, dimensions.width, dimensions.height)
             THEN [ok |-> TRUE, content |-> content]
             ELSE [ok |-> TRUE,
                   content |-> push_fixed(TagName(content), attrs,
                                          fitted_box(x, y, width, height,
                                                     dimensions.width,
                                                     dimensions.height))] :
            a \in {attributes(content)}} : TRUE

\* what fix_image_aspect writes for one event: an image keeps its form
fix_image_event(event) ==
    IF event.kind \in {"Empty", "Start"} /\ IsImage(event)
    THEN write_event([kind |-> event.kind,
                      content |-> fix_image_element(event.content).content])
    ELSE write_event(event)

\* fix_image_aspect: Err when the reader reports an error
fix_image_aspect(svg_content) ==
    CHOOSE r \in
        {IF OpenAfter(events, <<>>).ok
         THEN [kind |-> "fix_image_aspect", ok |-> TRUE,
               text |-> Concat([k \in DOMAIN events |-> fix_image_event(events[k])])]
         ELSE [kind |-> "fix_image_aspect", ok |-> FALSE, text |-> <<>>] :
            events \in {read_events(svg_content, 1)}} : TRUE

\* fix_image_aspect(&svg)
FixImageAspect ==
    /\ pc = "pass"
    /\ pass_in.kind = "fix_image_aspect"
    /\ pass_out' = fix_image_aspect(pass_in.doc)
    /\ pc' = "passed"
    /\ UNCHANGED <<slides, config, build, idx, zip, outfile, result, error, fsVars,
                   loadVars, validateVars, cmdVars, sidecarVars, pass_in, jobVars>>

\* fix_image_aspect applied to its own output
FixImageAspectAgain ==
    /\ pc = "passed"
    /\ pass_out.kind = "fix_image_aspect"
    /\ pass_out.ok
    /\ pass_in' = [pass_in EXCEPT !.doc = pass_out.text]
    /\ pass_out' = fix_image_aspect(pass_out.text)
    /\ pc' = "passed_again"
    /\ UNCHANGED <<slides, config, build, idx, zip, outfile, result, error, fsVars,
                   loadVars, validateVars, cmdVars, sidecarVars, jobVars>>

(***************************************************************************)
(* Inputs of fix_image_aspect, flatten_tspan and embed_icons               *)
(***************************************************************************)
\* no export, load, validation, command or child process is running
OthersIdle ==
    /\ slides = <<>>
    /\ config = [width |-> U32(0, 1280), height |-> U32(0, 720)]
    /\ build = "release"
    /\ idx = 0
    /\ zip = <<>>
    /\ outfile = FALSE
    /\ result = "none"
    /\ svg_output = NoDir
    /\ svg_final = NoDir
    /\ notes_dir = NoDir
    /\ entries = <<>>
    /\ applied = <<>>
    /\ doc = <<>>
    /\ verdict = NoVerdict
    /\ error = NoError
    /\ request = NoRequest
    /\ response = NoResponse
    /\ calls = <<>>
    /\ child = NoChild
    /\ captured = NoCapture

\* nothing but a rewrite pass is running
OnlyPass ==
    /\ JobsIdle
    /\ OthersIdle
    /\ pass_out = NoPass
    /\ pc = "pass"

\* data:image/png;base64, followed by the Base64 text of the bytes
PngDataUri(bytes) ==
    DataPrefix \o <<"i", "m", "a", "g", "e", "/", "p", "n", "g", ";", "b", "a", "s",
                    "e", "6", "4", ",">> \o base64_encode(bytes)

\* no href, a file name, the data: URI of each bitmap, and the data: URI of
\* bytes that are no image
BoxHrefs ==
    {<<>>, APng, DataUri} \cup {PngDataUri(b.bytes) : b \in Bitmaps}

BoxXs == {Absent, Given(<<"1", "0">>, 10000)}
BoxYs == {Absent, Given(<<"2", "0">>, 20000)}
BoxWidths ==
    {Given(<<"1", "0", "0">>, 100000), Given(<<"5", "0">>, 50000), Given(<<"0">>, 0)}
BoxHeights == {Given(<<"1", "0", "0">>, 100000), Given(<<"5", "0">>, 50000)}

BoxInputs ==
    [form : {"empty", "pair"}, x : BoxXs, y : BoxYs, width : BoxWidths,
     height : BoxHeights, href : BoxHrefs]

\* <svg><image id="r" x y width height href/></svg>, or the same with
\* <image ..></image>
BoxDocText(r) ==
    LET content ==
            <<"i", "m", "a", "g", "e">>
            \o push_attribute(<<>>, IdAttr.key, IdAttr.value)
            \o AttrText(XKey, r.x)
            \o AttrText(YKey, r.y)
            \o AttrText(WidthKey, r.width)
            \o AttrText(HeightKey, r.height)
            \o (IF r.href = <<>> THEN <<>>
                ELSE push_attribute(<<>>, <<"h", "r", "e", "f">>, r.href))
    IN  <<"<", "s", "v", "g", ">">>
        \o (IF r.form = "empty" THEN <<"<">> \o content \o <<"/", ">">>
            ELSE <<"<">> \o content \o <<">", "<", "/", "i", "m", "a", "g", "e", ">">>)
        \o <<"<", "/", "s", "v", "g", ">">>

InitFix ==
    /\ OnlyPass
    /\ pass_in \in {[kind |-> "fix_image_aspect", doc |-> BoxDocText(r), image |-> r] :
                      r \in BoxInputs}

NextFix == FixImageAspect \/ FixImageAspectAgain

SpecFix == InitFix /\ [][NextFix]_vars

(***************************************************************************)
(* Claims about fix_image_aspect                                           *)
(***************************************************************************)
FixPassed == pc = "passed" /\ pass_out.kind = "fix_image_aspect"

\* C21: fix_image_aspect applied to its own output returns that output,
\* also when the first application rewrote the box of the image.
C21_FixIdempotent ==
    (pc = "passed_again" /\ pass_out.kind = "fix_image_aspect") =>
        pass_out.ok /\ pass_out.text = pass_in.doc

\* the number an attribute of the written image denotes, 0 when it is absent
OutNumber(key) == parse_f32(LastValue(OutAttrs, {key})).v

Abs(n) == IF n < 0 THEN -n ELSE n

\* what is lost by writing a number with two decimals: half a hundredth
Rounding == Scale \div 200

\* the image of input r needs a new box: positive box, decodable bitmap of
\* another ratio
NeedsFix(r) ==
    LET img == get_image_dimensions(r.href)
    IN  /\ r.width.v > 0
        /\ r.height.v > 0
        /\ img.some
        /\ ~ratios_match(r.width.v, r.height.v, img.width, img.height)

\* C22: an image with a positive box and a decodable bitmap of another ratio
\* gets a box of the bitmap's ratio that lies inside the declared box and is
\* centred in it (up to the two decimals written), with or without x and y
\* attributes; an image with a non-positive box or an unresolvable
\* reference is written back unchanged.
C22_BoxFittedAndCentred ==
    FixPassed =>
        LET r == pass_in.image
            img == get_image_dimensions(r.href)
            nx == OutNumber(XKey)
            ny == OutNumber(YKey)
            nw == OutNumber(WidthKey)
            nh == OutNumber(HeightKey)
        IN  /\ pass_out.ok
            /\ NeedsFix(r) =>
                  /\ 2 * Abs(nw * img.height - nh * img.width)
                        <= 2 * Rounding * (img.width + img.height)
                  /\ nx + 2 * Rounding >= r.x.v
                  /\ ny + 2 * Rounding >= r.y.v
                  /\ nx + nw <= r.x.v + r.width.v + 2 * Rounding
                  /\ ny + nh <= r.y.v + r.height.v + 2 * Rounding
                  /\ Abs((nx - r.x.v) - (r.x.v + r.width.v - nx - nw)) <= 4 * Rounding
                  /\ Abs((ny - r.y.v) - (r.y.v + r.height.v - ny - nh)) <= 4 * Rounding
            /\ (r.width.v <= 0 \/ r.height.v <= 0 \/ ~img.some) =>
                  pass_out.text = pass_in.doc

(***************************************************************************)
(* flatten_tspan                                                           *)
(***************************************************************************)
\* the character a predefined entity stands for, the empty text for any
\* other name
Entity(name) ==
    IF name = <<"l", "t">> THEN <<"<">>
    ELSE IF name = <<"g", "t">> THEN <<">">>
    ELSE IF name = <<"a", "m", "p">> THEN <<"&">>
    ELSE IF name = <<"q", "u", "o", "t">> THEN <<"\"">>
    ELSE IF name = <<"a", "p", "o", "s">> THEN <<"'">>
    ELSE <<>>

\* quick_xml::escape::unescape: the predefined entities are replaced; Err
\* for an "&" that starts none of them (character references are not among
\* the inputs)
RECURSIVE unescape(_)
unescape(text) ==
    CHOOSE r \in
        {IF amp = 0 THEN [ok |-> TRUE, text |-> text]
         ELSE LET semi == IndexFrom(text, ";", amp)
                  char == IF semi = 0 THEN <<>>
                          ELSE Entity(SubSeq(text, amp + 1, semi - 1))
                  rest == unescape(SubSeq(text, semi + 1, Len(text)))
              IN  IF char = <<>> \/ ~rest.ok THEN [ok |-> FALSE, text |-> <<>>]
                  ELSE [ok |-> TRUE,
                        text |-> SubSeq(text, 1, amp - 1) \o char \o rest.text] :
            amp \in {IndexFrom(text, "&", 1)}} : TRUE

\* the text written as it is
escape_Nothing(raw) == raw

\* quick_xml::escape::escape, applied to a text or an attribute value that
\* is given unescaped
escape(raw) ==
    LET a == str_replace(raw, <<"&">>, <<"&", "a", "m", "p", ";">>)
        b == str_replace(a, <<"<">>, <<"&", "l", "t", ";">>)
        c == str_replace(b, <<">">>, <<"&", "g", "t", ";">>)
        d == str_replace(c, <<"\"">>, <<"&", "q", "u", "o", "t", ";">>)
    IN  str_replace(d, <<"'">>, <<"&", "a", "p", "o", "s", ";">>)

\* .unwrap_or_default(): the empty text for an Err
unescape_or_default(text) == unescape(text).text

TextName == <<"t", "e", "x", "t">>
TspanName == <<"t", "s", "p", "a", "n">>

\* the fields of TspanInfo that hold an attribute, by attribute name, in the
\* order of the struct
TspanKeys ==
    <<<<"x">>, <<"y">>, <<"d", "x">>, <<"d", "y">>, <<"f", "i", "l", "l">>,
      <<"f", "o", "n", "t", "-", "s", "i", "z", "e">>,
      <<"f", "o", "n", "t", "-", "w", "e", "i", "g", "h", "t">>,
      <<"f", "o", "n", "t", "-", "f", "a", "m", "i", "l", "y">>,
      <<"s", "t", "y", "l", "e">>>>

None == [some |-> FALSE, v |-> <<>>]
Some(v) == [some |-> TRUE, v |-> v]

\* TspanInfo::default()
TspanInfo_default == [fields |-> [k \in DOMAIN TspanKeys |-> None], text |-> <<>>]

\* the loop over the attributes of a <tspan>: a field is set by every
\* attribute of its name, to the unescaped value
RECURSIVE collect_tspan(_, _)
collect_tspan(attrs, info) ==
    IF attrs = <<>> THEN info
    ELSE LET hit == {k \in DOMAIN TspanKeys : TspanKeys[k] = Head(attrs).key}
         IN  collect_tspan(Tail(attrs),
                 IF hit = {} THEN info
                 ELSE [info EXCEPT !.fields[CHOOSE k \in hit : TRUE] =
                                        Some(unescape_or_default(Head(attrs).value))])

\* the element built from a name and attributes pushed one after the other
RECURSIVE push_all(_, _)
push_all(content, attrs) ==
    IF attrs = <<>> THEN content
    ELSE push_all(push_attribute(content, Head(attrs).key, Head(attrs).value),
                  Tail(attrs))

\* the attributes of the parent that write_text_element keeps: x and y are
\* both left out as soon as the tspan has an x or a y
kept_attrs(text_attrs, tspan) ==
    SelectSeq(text_attrs,
              LAMBDA a : ~(a.key \in {XKey, YKey}
                           /\ (tspan.fields[1].some \/ tspan.fields[2].some)))

\* the attributes write_text_element adds for the tspan, in its order: x, y,
\* fill, font-size, font-weight, font-family, style (dx and dy are not
\* written); a value given as &str is escaped
tspan_attrs(tspan) ==
    LET order == <<1, 2, 5, 6, 7, 8, 9>>
        present == SelectSeq(order, LAMBDA k : tspan.fields[k].some)
    IN  [i \in DOMAIN present |->
            [key |-> TspanKeys[present[i]],
             value |-> escape(tspan.fields[present[i]].v)]]

\* write_text_element: <text ..>content</text>
write_text_element(text_attrs, tspan) ==
    write_event([kind |-> "Start",
                 content |-> push_all(push_all(TextName, kept_attrs(text_attrs, tspan)),
                                      tspan_attrs(tspan))])
    \o escape(tspan.text)
    \o write_event([kind |-> "End", content |-> TextName])

\* the tspans with the text of the last one replaced
set_last_text(tspans, text) ==
    [tspans EXCEPT ![Len(tspans)] = [@ EXCEPT !.text = text]]

\* the loop of flatten_tspan from event k on, with its three locals: what it
\* writes. Nothing is written between <text> and </text>; tspans and
\* text_attrs are cleared by the next <text> only
RECURSIVE flatten_loop(_, _, _, _, _)
flatten_loop(events, k, in_text, text_attrs, tspans) ==
    IF k > Len(events) THEN <<>>
    ELSE LET e == events[k]
             name == TagName(e.content)
         IN  IF e.kind = "Start" /\ name = TextName
             THEN flatten_loop(events, k + 1, TRUE, attributes(e.content).attrs, <<>>)
             ELSE IF e.kind = "Start" /\ in_text /\ name = TspanName
             THEN flatten_loop(events, k + 1, in_text, text_attrs,
                               Append(tspans,
                                      collect_tspan(attributes(e.content).attrs,
                                                    TspanInfo_default)))
             ELSE IF e.kind = "Text" /\ in_text /\ tspans # <<>>
             THEN flatten_loop(events, k + 1, in_text, text_attrs,
                               set_last_text(tspans, unescape_or_default(e.content)))
             ELSE IF e.kind = "End" /\ name = TextName
             THEN (IF tspans # <<>>
                   THEN Concat([i \in DOMAIN tspans |->
                                   write_text_element(text_attrs, tspans[i])])
                   ELSE write_event([kind |-> "Start",
                                     content |-> push_all(TextName, text_attrs)])
                        \o write_event(e))
                  \o flatten_loop(events, k + 1, FALSE, text_attrs, tspans)
             ELSE (IF in_text THEN <<>> ELSE write_event(e))
                  \o flatten_loop(events, k + 1, in_text, text_attrs, tspans)

\* flatten_tspan: Err when the reader reports an error
flatten_tspan(svg_content) ==
    CHOOSE r \in
        {IF OpenAfter(events, <<>>).ok
         THEN [kind |-> "flatten_tspan", ok |-> TRUE,
               text |-> flatten_loop(events, 1, FALSE, <<>>, <<>>)]
         ELSE [kind |-> "flatten_tspan", ok |-> FALSE, text |-> <<>>] :
            events \in {read_events(svg_content, 1)}} : TRUE

\* flatten_tspan(&svg)
FlattenTspan ==
    /\ pc = "pass"
    /\ pass_in.kind = "flatten_tspan"
    /\ pass_out' = flatten_tspan(pass_in.doc)
    /\ pc' = "passed"
    /\ UNCHANGED <<slides, config, build, idx, zip, outfile, result, error, fsVars,
                   loadVars, validateVars, cmdVars, sidecarVars, jobVars, pass_in>>

(***************************************************************************)
(* Inputs of flatten_tspan: <svg><text x="1" y="2" fill="red">..</text>    *)
(* </svg>, the content being at most MaxPieces pieces                      *)
(***************************************************************************)
MaxPieces == 2

ParentAttrs ==
    <<[key |-> XKey, value |-> <<"1">>], [key |-> YKey, value |-> <<"2">>], FillAttr>>

Attr(key, value) == [key |-> key, value |-> value]

\* <tspan attrs>text</tspan>
SpanMarkup(attrs, text) ==
    <<"<">> \o push_all(TspanName, attrs) \o <<">">> \o text
    \o <<"<", "/", "t", "s", "p", "a", "n", ">">>

\* a sub-span in start/end form holding character data only
Span(attrs, text) ==
    [kind |-> "span", markup |-> SpanMarkup(attrs, text), attrs |-> attrs, text |-> text]

\* anything else: character data, an element that is no tspan, a
\* self-closing tspan, a text element, a tspan inside a tspan
Other(kind, markup) == [kind |-> kind, markup |-> markup, attrs |-> <<>>, text |-> <<>>]

BlueFill == Attr(<<"f", "i", "l", "l">>, <<"b", "l", "u", "e">>)

Pieces ==
    {Span(<<>>, <<"A">>),
     Span(<<Attr(XKey, <<"5">>)>>, <<"B">>),
     Span(<<Attr(XKey, <<"5">>), Attr(YKey, <<"6">>)>>, <<"C">>),
     Span(<<Attr(XKey, <<"5">>), Attr(YKey, <<"6">>), BlueFill>>, <<"D">>),
     Span(<<>>, <<"&", "l", "t", ";", "t", "s", "p", "a", "n", "/", "&", "g", "t", ";">>),
     Other("chars", <<"H", "i">>),
     Other("chars", <<"\n">>),
     Other("child", <<"<", "a", ">", "b", "<", "/", "a", ">">>),
     Other("empty_span", <<"<", "t", "s", "p", "a", "n", "/", ">">>),
     Other("inner_text", <<"<", "t", "e", "x", "t", ">", "I", "<", "/", "t", "e", "x",
                           "t", ">">>),
     Other("nested_span",
           <<"<">> \o TspanName \o <<">", "E">> \o SpanMarkup(<<>>, <<"F">>)
           \o <<"<", "/", "t", "s", "p", "a", "n", ">">>)}

PieceSeqs == UNION {[1..n -> Pieces] : n \in 0..MaxPieces}

TextDocText(pieces) ==
    <<"<", "s", "v", "g", ">", "<">> \o push_all(TextName, ParentAttrs) \o <<">">>
    \o Concat([i \in DOMAIN pieces |-> pieces[i].markup])
    \o <<"<", "/", "t", "e", "x", "t", ">", "<", "/", "s", "v", "g", ">">>

InitFlatten ==
    /\ OnlyPass
    /\ pass_in \in {[kind |-> "flatten_tspan", doc |-> TextDocText(pieces),
                     pieces |-> pieces] : pieces \in PieceSeqs}

NextFlatten == FlattenTspan

SpecFlatten == InitFlatten /\ [][NextFlatten]_vars

(***************************************************************************)
(* Claims about flatten_tspan                                              *)
(***************************************************************************)
FlattenPassed == pc = "passed" /\ pass_out.kind = "flatten_tspan"

OutEvents == read_events(pass_out.text, 1)

IsTag(event, kinds, name) == event.kind \in kinds /\ TagName(event.content) = name

\* some tspan starts while a text element is open
NestedTspan(events) ==
    \E i \in DOMAIN events :
        /\ IsTag(events[i], {"Start", "Empty"}, TspanName)
        /\ Cardinality({j \in 1..(i - 1) : IsTag(events[j], {"Start"}, TextName)})
              > Cardinality({j \in 1..(i - 1) : IsTag(events[j], {"End"}, TextName)})

\* C23: the output of flatten_tspan holds no tspan element inside a text
\* element, whatever the number, the depth and the form of the sub-spans.
C23_NoNestedTspan == FlattenPassed => pass_out.ok /\ ~NestedTspan(OutEvents)

\* a text element with a tspan inside a tspan and a self-closing tspan has
\* been flattened
C23_Witness ==
    /\ FlattenPassed
    /\ NestedTspan(read_events(pass_in.doc, 1))
    /\ \E i, j \in DOMAIN pass_in.pieces :
          /\ pass_in.pieces[i].kind = "nested_span"
          /\ pass_in.pieces[j].kind = "empty_span"

PieceKinds == {pass_in.pieces[i].kind : i \in DOMAIN pass_in.pieces}

\* C24: a text element without sub-spans is reproduced with its attributes
\* and its content, character data and other children included.
C24_PlainTextReproduced ==
    (FlattenPassed /\ PieceKinds \subseteq {"chars", "child"}) =>
        pass_out.ok /\ pass_out.text = pass_in.doc

\* the sub-spans of the input, in order
InSpans == SelectSeq(pass_in.pieces, LAMBDA p : p.kind = "span")

\* the i-th element of a set of numbers, from the least
Nth(S, i) == CHOOSE a \in S : Cardinality({b \in S : b < a}) = i - 1

\* the positions of the text start tags of the output
OutTexts == {i \in DOMAIN OutEvents : IsTag(OutEvents[i], {"Start"}, TextName)}

\* the text has k >= 1 sub-spans, all in start/end form, and character data
SpansOnly == InSpans # <<>> /\ PieceKinds \subseteq {"span", "chars"}

\* what the claim gives the text element of a sub-span: the sub-span's
\* attributes, and the parent's attributes of any other name
Inherited(span) ==
    SeqToSet(span.attrs)
    \cup {a \in SeqToSet(ParentAttrs) : \A b \in SeqToSet(span.attrs) : b.key # a.key}

\* C25: a text with k >= 1 sub-spans gives k text elements in the order of
\* the sub-spans; each has every attribute name once, with the sub-span's
\* value where the sub-span gives one and the parent's value otherwise.
C25_AttributesInherited ==
    (FlattenPassed /\ SpansOnly) =>
        /\ pass_out.ok
        /\ Cardinality(OutTexts) = Len(InSpans)
        /\ \A i \in DOMAIN InSpans :
              LET a == attributes(OutEvents[Nth(OutTexts, i)].content)
              IN  a.ok /\ SeqToSet(a.attrs) = Inherited(InSpans[i])

\* the character data of the text element that starts at event i
ContentAt(events, i) ==
    IF i < Len(events) /\ events[i + 1].kind = "Text" THEN events[i + 1].content
    ELSE <<>>

\* C28: the k-th text element written holds the text of the k-th sub-span;
\* character data after the end tag of a sub-span does not replace it.
C28_SpanTextKept ==
    (FlattenPassed /\ SpansOnly) =>
        /\ pass_out.ok
        /\ Cardinality(OutTexts) = Len(InSpans)
        /\ \A i \in DOMAIN InSpans :
              ContentAt(OutEvents, Nth(OutTexts, i)) = InSpans[i].text

(***************************************************************************)
(* embed_icons                                                             *)
(***************************************************************************)
ICON_BASE_SIZE == 16

UseName == <<"u", "s", "e">>
DataIconKey == <<"d", "a", "t", "a", "-", "i", "c", "o", "n">>
FillKey == <<"f", "i", "l", "l">>

\* Display of an f32 given in thousandths: no decimal point for a whole
\* number, otherwise the decimals without trailing zeros
fmt_f32(v) ==
    LET a == IF v < 0 THEN -v ELSE v
        frac == a % Scale
        digits == <<DigitChars[(frac \div 100) + 1], DigitChars[((frac \div 10) % 10) + 1],
                    DigitChars[(frac % 10) + 1]>>
        last == SetMax({k \in 1..3 : digits[k] # "0"} \cup {0})
    IN  (IF v < 0 THEN <<"-">> ELSE <<>>) \o NatText(a \div Scale)
        \o (IF last = 0 THEN <<>> ELSE <<".">> \o SubSeq(digits, 1, last))

\* UseAttrs::from_element: Err for an attribute error; a number that does
\* not parse is 0.0, a missing data-icon is the empty name
UseAttrs_from_element(content) ==
    CHOOSE r \in
        {[ok |-> a.ok,
          icon |-> (unescape(LastValue(a.attrs, {DataIconKey}))).text,
          x |-> parse_f32(LastValue(a.attrs, {XKey})).v,
          y |-> parse_f32(LastValue(a.attrs, {YKey})).v,
          width |-> parse_f32(LastValue(a.attrs, {WidthKey})).v,
          height |-> parse_f32(LastValue(a.attrs, {HeightKey})).v,
          fill |-> IF \E k \in DOMAIN a.attrs : a.attrs[k].key = FillKey
                   THEN Some(unescape(LastValue(a.attrs, {FillKey})).text)
                   ELSE None] :
            a \in {attributes(content)}} : TRUE

\* generate_icon_group: <g transform="translate(x, y) scale(width / 16)"
\* fill="..">paths</g> as a string (the widths of the inputs are multiples
\* of 0.016, so the scale is exact in thousandths)
generate_icon_group(attrs, paths) ==
    <<"<", "g", " ", "t", "r", "a", "n", "s", "f", "o", "r", "m", "=", "\"",
      "t", "r", "a", "n", "s", "l", "a", "t", "e", "(">>
    \o fmt_f32(attrs.x) \o <<",", " ">> \o fmt_f32(attrs.y)
    \o <<")", " ", "s", "c", "a", "l", "e", "(">>
    \o fmt_f32(attrs.width \div ICON_BASE_SIZE) \o <<")", "\"">>
    \o (IF attrs.fill.some
        THEN <<" ", "f", "i", "l", "l", "=", "\"">> \o attrs.fill.v \o <<"\"">>
        ELSE <<>>)
    \o <<">">> \o Concat(paths) \o <<"<", "/", "g", ">">>

\* ICON_LIBRARY.get(name): the catalog is a set of [name, paths]
library_get(library, name) ==
    IF \E icon \in library : icon.name = name
    THEN Some((CHOOSE icon \in library : icon.name = name).paths)
    ELSE None

\* what embed_icons writes for one event: for a self-closing <use> with a
\* data-icon attribute naming an icon of the catalog, the group as an
\* Event::Text built by BytesText::new, which escapes it
embed_icon_event(event, library) ==
    IF event.kind = "Empty" /\ TagName(event.content) = UseName
    THEN CHOOSE r \in
        {IF /\ \E k \in DOMAIN a.attrs : a.attrs[k].key = DataIconKey
            /\ attrs.ok
            /\ library_get(library, attrs.icon).some
         THEN escape(generate_icon_group(attrs, library_get(library, attrs.icon).v))
         ELSE write_event(event) :
            a \in {attributes(event.content)},
            attrs \in {UseAttrs_from_element(event.content)}} : TRUE
    ELSE write_event(event)

\* embed_icons: Err when the reader reports an error
embed_icons(svg_content, library) ==
    CHOOSE r \in
        {IF OpenAfter(events, <<>>).ok
         THEN [kind |-> "embed_icons", ok |-> TRUE,
               text |-> Concat([k \in DOMAIN events |->
                                   embed_icon_event(events[k], library)])]
         ELSE [kind |-> "embed_icons", ok |-> FALSE, text |-> <<>>] :
            events \in {read_events(svg_content, 1)}} : TRUE

\* embed_icons(&svg)
EmbedIcons ==
    /\ pc = "pass"
    /\ pass_in.kind = "embed_icons"
    /\ pass_out' = embed_icons(pass_in.doc, pass_in.library)
    /\ pc' = "passed"
    /\ UNCHANGED <<slides, config, build, idx, zip, outfile, result, error, fsVars,
                   loadVars, validateVars, cmdVars, sidecarVars, jobVars, pass_in>>

(***************************************************************************)
(* Inputs of embed_icons                                                   *)
(***************************************************************************)
ArrowName == <<"a", "r", "r", "o", "w">>
GhostName == <<"g", "h", "o", "s", "t">>

\* the catalog: empty, or holding the icon "arrow" with one path
ArrowPath == <<"<", "p", "a", "t", "h", " ", "d", "=", "\"", "M", "0", "\"", "/", ">">>
Libraries == {{}, {[name |-> ArrowName, paths |-> <<ArrowPath>>]}}

\* "use": <use ../>   "use_pair": <use ..></use>   "rect": <rect ../>
IconForms == {"use", "use_pair", "rect"}

IconInputs ==
    [form : IconForms,
     icon : {Absent, Given(ArrowName, 0), Given(GhostName, 0)},
     x : {Absent, Given(<<"1", "0", "0">>, 100000)},
     width : {Given(<<"4", "8">>, 48000), Given(<<"2", "4">>, 24000)},
     fill : {Absent, Given(<<"r", "e", "d">>, 0)}]

\* <svg><use data-icon x width fill/></svg>
IconDocText(r) ==
    LET attrs ==
            AttrText(DataIconKey, r.icon) \o AttrText(XKey, r.x)
            \o AttrText(WidthKey, r.width) \o AttrText(FillKey, r.fill)
    IN  <<"<", "s", "v", "g", ">">>
        \o (IF r.form = "use" THEN <<"<">> \o UseName \o attrs \o <<"/", ">">>
            ELSE IF r.form = "use_pair"
            THEN <<"<">> \o UseName \o attrs \o <<">", "<", "/", "u", "s", "e", ">">>
            ELSE <<"<", "r", "e", "c", "t">> \o attrs \o <<"/", ">">>)
        \o <<"<", "/", "s", "v", "g", ">">>

InitIcons ==
    /\ OnlyPass
    /\ pass_in \in {[kind |-> "embed_icons", doc |-> IconDocText(r), icon |-> r,
                     library |-> library] : r \in IconInputs, library \in Libraries}

NextIcons == EmbedIcons

SpecIcons == InitIcons /\ [][NextIcons]_vars

(***************************************************************************)
(* Claims about embed_icons                                                *)
(***************************************************************************)
IconsPassed == pc = "passed" /\ pass_out.kind = "embed_icons"

\* the input holds a self-closing placeholder that names an icon of the
\* catalog
Recognized ==
    /\ pass_in.icon.form = "use"
    /\ pass_in.icon.icon.present
    /\ \E icon \in pass_in.library : icon.name = pass_in.icon.icon.text

GName == <<"g">>

\* C26: a self-closing placeholder naming an icon of the catalog is replaced
\* by a group element, and the output holds no data-icon marker; any other
\* document is returned as it is.
C26_PlaceholderReplaced ==
    IconsPassed =>
        /\ pass_out.ok
        /\ Recognized =>
              /\ ~Contains(pass_out.text, DataIconKey)
              /\ \E i \in DOMAIN OutEvents : IsTag(OutEvents[i], {"Start"}, GName)
        /\ ~Recognized => pass_out.text = pass_in.doc

(***************************************************************************)
(* The job registry (AppState), cmd_run_pipeline with its spawned task,    *)
(* PipelineOrchestrator::run_pipeline and cmd_cancel_job                   *)
(***************************************************************************)
MaxJobs == 2
MaxCancels == 2

\* normalize_steps: the three default steps for an empty list, otherwise
\* every name trimmed
DefaultSteps ==
    <<<<"t", "o", "t", "a", "l", "_", "m", "d", "_", "s", "p", "l", "i", "t">>,
      <<"f", "i", "n", "a", "l", "i", "z", "e", "_", "s", "v", "g">>,
      <<"s", "v", "g", "_", "t", "o", "_", "p", "p", "t", "x">>>>

normalize_steps(steps) ==
    IF steps = <<>> THEN DefaultSteps ELSE [i \in DOMAIN steps |-> trim(steps[i])]

\* JobEventPayload::started / progress / log / completed / failed /
\* cancelled, without the message
JobEvent(kind) == [kind |-> kind, current |-> 0, total |-> 0]
ProgressEvent(current, total) == [kind |-> "progress", current |-> current, total |-> total]

\* emit_job_event for job j
emit(j, event) == [emitted EXCEPT ![j] = Append(@, event)]

\* AppState::create_job: a Pending record with a fresh token
JobRecord_new == [status |-> "Pending", message |-> "created", cancelled |-> FALSE]

\* AppState::update_job_status: no effect for an unknown job
update_job_status(j, status, message) ==
    IF j \in DOMAIN job_registry
    THEN [job_registry EXCEPT ![j] = [@ EXCEPT !.status = status, !.message = message]]
    ELSE job_registry

\* AppState::cancel_job, under the write lock: the token is cancelled and
\* the status is overwritten, whatever it was
cancel_job(j) ==
    [job_registry EXCEPT ![j] = [status |-> "Cancelled", message |-> "cancel_sent",
                                 cancelled |-> TRUE]]

\* a token that is never seen cancelled
is_cancelled_Never(j) == FALSE

\* cancel_token.is_cancelled(): the token of the task is the token of the
\* record
is_cancelled(j) == job_registry[j].cancelled

\* a task that has not produced the result of run_pipeline
Task(steps, at) ==
    [pc |-> at, requested |-> steps, steps |-> <<>>, index |-> 0, result |-> "none",
     processed_steps |-> <<>>, cancelled_at_call |-> FALSE]

passFrame == <<slides, config, build, pc, idx, zip, outfile, result, error, fsVars,
               loadVars, validateVars, cmdVars, sidecarVars, passVars>>

\* the lists of steps of a request
StepLists == {<<>>, <<<<" ", "a">>, <<"b">>>>}

\* cmd_run_pipeline: Err for a project path that does not exist; otherwise
\* the job is created with the next id and the task is spawned
CmdRunPipeline ==
    /\ pc = "jobs"
    /\ project_exists
    /\ Len(job_registry) < MaxJobs
    /\ \E steps \in StepLists :
          tasks' = Append(tasks, Task(steps, "start"))
    /\ job_registry' = Append(job_registry, JobRecord_new)
    /\ emitted' = Append(emitted, <<>>)
    /\ UNCHANGED <<passFrame, project_exists, cancels>>

\* the project directory is removed by another program
RemoveProject ==
    /\ pc = "jobs"
    /\ project_exists
    /\ project_exists' = FALSE
    /\ UNCHANGED <<passFrame, job_registry, emitted, tasks, cancels>>

\* the task of job j: update_job_status(Running)
TaskStart(j) ==
    /\ tasks[j].pc = "start"
    /\ job_registry' = update_job_status(j, "Running", "running")
    /\ tasks' = [tasks EXCEPT ![j].pc = "emit_started"]
    /\ UNCHANGED <<passFrame, project_exists, emitted, cancels>>

\* the task emits the started event
TaskEmitStarted(j) ==
    /\ tasks[j].pc = "emit_started"
    /\ emitted' = emit(j, JobEvent("started"))
    /\ tasks' = [tasks EXCEPT ![j].pc = "run"]
    /\ UNCHANGED <<passFrame, project_exists, job_registry, cancels>>

\* run_pipeline, up to the loop: ProjectNotFound before anything is logged;
\* otherwise the steps are normalized and the first message is logged
RunBegin(j) ==
    /\ tasks[j].pc = "run"
    /\ IF ~project_exists
       THEN /\ tasks' = [tasks EXCEPT ![j].pc = "match",
                                      ![j].result = "ProjectNotFound",
                                      ![j].cancelled_at_call = job_registry[j].cancelled]
            /\ UNCHANGED emitted
       ELSE /\ tasks' = [tasks EXCEPT ![j].pc = "loop",
                                      ![j].steps = normalize_steps(tasks[j].requested),
                                      ![j].cancelled_at_call = job_registry[j].cancelled]
            /\ emitted' = emit(j, JobEvent("log"))
    /\ UNCHANGED <<passFrame, project_exists, job_registry, cancels>>

\* the head of the loop: after the last step the result is Ok; before a
\* step the token is checked
RunCheck(j) ==
    /\ tasks[j].pc = "loop"
    /\ IF tasks[j].index = Len(tasks[j].steps)
       THEN /\ tasks' = [tasks EXCEPT ![j].pc = "match", ![j].result = "Ok",
                                      ![j].processed_steps = tasks[j].steps]
            /\ emitted' = emit(j, JobEvent("log"))
       ELSE IF is_cancelled(j)
       THEN /\ tasks' = [tasks EXCEPT ![j].pc = "match", ![j].result = "Cancelled"]
            /\ emitted' = emit(j, JobEvent("log"))
       ELSE /\ tasks' = [tasks EXCEPT ![j].pc = "report"]
            /\ UNCHANGED emitted
    /\ UNCHANGED <<passFrame, project_exists, job_registry, cancels>>

\* sink.report_progress(index + 1, total, ..), and the sleep
RunReport(j) ==
    /\ tasks[j].pc = "report"
    /\ emitted' = emit(j, ProgressEvent(tasks[j].index + 1, Len(tasks[j].steps)))
    /\ tasks' = [tasks EXCEPT ![j].pc = "loop", ![j].index = @ + 1]
    /\ UNCHANGED <<passFrame, project_exists, job_registry, cancels>>

\* match result: the status the task is going to record; after Ok the token
\* is read once more
TaskMatch(j) ==
    /\ tasks[j].pc = "match"
    /\ tasks' = [tasks EXCEPT ![j].pc =
                    IF tasks[j].result = "Ok"
                    THEN (IF is_cancelled(j) THEN "update_Cancelled" ELSE "update_Completed")
                    ELSE IF tasks[j].result = "Cancelled" THEN "update_Cancelled"
                    ELSE "update_Failed"]
    /\ UNCHANGED <<passFrame, project_exists, job_registry, emitted, cancels>>

\* the final update_job_status of the task
TaskUpdate(j) ==
    /\ \E status \in {"Completed", "Cancelled", "Failed"} :
          /\ tasks[j].pc = "update_" \o status
          /\ job_registry' = update_job_status(j, status, "task_" \o status)
          /\ tasks' = [tasks EXCEPT ![j].pc = "emit_" \o status]
    /\ UNCHANGED <<passFrame, project_exists, emitted, cancels>>

\* the final event of the task
TaskEmitFinal(j) ==
    /\ \E kind \in {"Completed", "Cancelled", "Failed"} :
          /\ tasks[j].pc = "emit_" \o kind
          /\ emitted' = emit(j, JobEvent(kind))
          /\ tasks' = [tasks EXCEPT ![j].pc = "finished"]
    /\ UNCHANGED <<passFrame, project_exists, job_registry, cancels>>

\* cmd_cancel_job, first half: cancel_job, Err for an unknown job
CmdCancelJob ==
    /\ pc = "jobs"
    /\ Len(cancels) < MaxCancels
    /\ \E j \in 1..MaxJobs :
          IF j \in DOMAIN job_registry
          THEN /\ job_registry' = cancel_job(j)
               /\ cancels' = Append(cancels, [job_id |-> j, pc |-> "emit"])
          ELSE /\ cancels' = Append(cancels, [job_id |-> j, pc |-> "failed"])
               /\ UNCHANGED job_registry
    /\ UNCHANGED <<passFrame, project_exists, emitted, tasks>>

\* cmd_cancel_job, second half: the cancelled event, and Ok
CmdCancelEmit ==
    /\ \E c \in DOMAIN cancels :
          /\ cancels[c].pc = "emit"
          /\ emitted' = emit(cancels[c].job_id, JobEvent("Cancelled"))
          /\ cancels' = [cancels EXCEPT ![c].pc = "done"]
    /\ UNCHANGED <<passFrame, project_exists, job_registry, tasks>>

InitJobs ==
    /\ OthersIdle
    /\ pass_in = NoPass
    /\ pass_out = NoPass
    /\ pc = "jobs"
    /\ project_exists = TRUE
    /\ job_registry = <<>>
    /\ emitted = <<>>
    /\ tasks = <<>>
    /\ cancels = <<>>

TaskStep ==
    \E j \in DOMAIN tasks :
        \/ TaskStart(j)
        \/ TaskEmitStarted(j)
        \/ RunBegin(j)
        \/ RunCheck(j)
        \/ RunReport(j)
        \/ TaskMatch(j)
        \/ TaskUpdate(j)
        \/ TaskEmitFinal(j)

NextJobs == CmdRunPipeline \/ RemoveProject \/ TaskStep \/ CmdCancelJob \/ CmdCancelEmit

SpecJobs == InitJobs /\ [][NextJobs]_vars

(***************************************************************************)
(* Claims about run_pipeline and the job registry                          *)
(***************************************************************************)
\* the progress events, and all the events of the sink, emitted for job j
ProgressOf(j) == SelectSeq(emitted[j], LAMBDA e : e.kind = "progress")
SinkEventsOf(j) == SelectSeq(emitted[j], LAMBDA e : e.kind \in {"progress", "log"})

\* run_pipeline of job j keeps to its protocol, the steps to run being
\* expected: the progress events are (1, n), (2, n), .. without gaps, as many
\* as steps were started; Ok comes after n events with the expected steps
\* processed; Cancelled comes with a cancelled token and fewer than n events;
\* a token cancelled before the call gives Cancelled and no progress event;
\* ProjectNotFound comes with no event of the sink
Protocol(j, expected) ==
    LET t == tasks[j]
        progress == ProgressOf(j)
        n == Len(expected)
    IN  /\ \A i \in DOMAIN progress :
              progress[i].current = i /\ progress[i].total = n
        /\ Len(progress) = t.index
        /\ t.result = "Ok" => Len(progress) = n /\ t.processed_steps = expected
        /\ t.result = "Cancelled" => job_registry[j].cancelled /\ Len(progress) < n
        /\ t.cancelled_at_call =>
              /\ Len(progress) = 0
              /\ t.result \in {"none", "Cancelled", "ProjectNotFound"}
              /\ t.pc # "report"
        /\ t.result = "ProjectNotFound" => SinkEventsOf(j) = <<>>

\* C27 as stated: the steps run and reported are the requested steps.
C27_ProtocolAsClaimed == \A j \in DOMAIN tasks : Protocol(j, tasks[j].requested)

\* the requested names without the white space around them, or the three
\* default steps when none is requested
TrimmedOrDefault(requested) ==
    IF Len(requested) = 0
    THEN <<<<"t", "o", "t", "a", "l", "_", "m", "d", "_", "s", "p", "l", "i", "t">>,
           <<"f", "i", "n", "a", "l", "i", "z", "e", "_", "s", "v", "g">>,
           <<"s", "v", "g", "_", "t", "o", "_", "p", "p", "t", "x">>>>
    ELSE [i \in DOMAIN requested |-> trim(requested[i])]

\* C27: run_pipeline checks the token before each step, reports (1, n),
\* (2, n), .. without gaps, returns Cancelled without further progress once
\* it has seen the token cancelled, Ok after n events otherwise, Cancelled
\* with no progress for a token cancelled before the call, ProjectNotFound
\* with no event for a missing project; n and processed_steps are those of
\* the requested names trimmed, or of the three default steps when no step
\* is requested.
C27_PipelineProtocol ==
    \A j \in DOMAIN tasks : Protocol(j, TrimmedOrDefault(tasks[j].requested))

\* run_pipeline has returned Ok for a request without steps, after three
\* progress events, and Cancelled for another job after one progress event
C27_Witness ==
    /\ \E j \in DOMAIN tasks :
          /\ tasks[j].result = "Ok"
          /\ tasks[j].requested = <<>>
          /\ Len(ProgressOf(j)) = 3
    /\ \E j \in DOMAIN tasks :
          /\ tasks[j].result = "Cancelled"
          /\ Len(ProgressOf(j)) = 1

Rank(status) == IF status = "Pending" THEN 0 ELSE IF status = "Running" THEN 1 ELSE 2

\* C29: the status of a job only moves forward, Pending -> Running ->
\* Completed / Failed / Cancelled, and a status of the last three is never
\* changed by a later step of cmd_cancel_job or of the task.
C29_StatusOnlyForward ==
    [][\A j \in DOMAIN job_registry :
          \/ job_registry'[j].status = job_registry[j].status
          \/ Rank(job_registry[j].status) < Rank(job_registry'[j].status)]_vars

\* cmd_cancel_job has returned Ok for job j
CancelSucceeded(j) ==
    \E c \in DOMAIN cancels : cancels[c].job_id = j /\ cancels[c].pc = "done"

\* C30: once cmd_cancel_job has succeeded for a job, the registry never
\* shows it Completed, no Completed event follows the Cancelled event, and
\* the status the task leaves behind is Cancelled.
C30_CancelledNeverCompleted ==
    \A j \in DOMAIN job_registry :
        CancelSucceeded(j) =>
            /\ job_registry[j].status # "Completed"
            /\ \A a, b \in DOMAIN emitted[j] :
                  (a < b /\ emitted[j][a].kind = "Cancelled") =>
                      emitted[j][b].kind # "Completed"
            /\ tasks[j].pc = "finished" => job_registry[j].status = "Cancelled"

====
